---------------------------- MODULE Spec2Model ----------------------------
(***************************************************************************)
(* A model of the Maybenot framework (src/src/framework.rs): the machine   *)
(* runtime that turns batches of trigger events into at most one action    *)
(* per machine, under per-machine and framework-wide overhead limits.      *)
(*                                                                         *)
(* Time is counted in microseconds (Instant and Duration are naturals),    *)
(* fractions are exact rationals [num, den], and every random draw of the  *)
(* code is a nondeterministic choice: an operator that draws returns the   *)
(* set of its possible outcomes.                                           *)
(***************************************************************************)
EXTENDS Integers, Sequences, FiniteSets, TLC

VARIABLES
    framework,  \* the Framework struct (framework.rs 257-271)
    emitted,    \* the actions the last trigger_events call returned
    panicked,   \* the last call aborted on an out-of-bounds index
    timers,     \* the timer the embedder of SpecEmbedder holds per machine
    args,       \* the arguments the constructor was called with
    result,     \* what the last constructor or validation call returned
    sim_queue   \* the SimQueue of the simulator (queue.rs 18-21)

vars == <<framework, emitted, panicked, timers, args, result, sim_queue>>

---------------------------------------------------------------------------
(* Bounds of the model *)

\* the clock stops at MaxTime microseconds
MaxTime == 3

\* at most MaxBytes bytes, padding or not, are sent in a run
MaxBytes == 6

\* a state without a limit is left alone once its counter has been
\* decremented MaxDecrements times
MaxDecrements == 2

\* a probability is a number of units out of ProbDenom; a draw of
\* rand::random::<f64>() in [0, 1) is one of 0 .. ProbDenom-1 units
ProbDenom == 4

\* the most events the queue of the simulator holds
MaxQueueLen == 3

---------------------------------------------------------------------------
(* Constants of the crate (constants.rs) *)

\* pseudo-states: out-of-range state indexes
STATECANCEL == 1000003
STATEEND == 1000002
STATENOP == 1000001

\* the limit of a state that declares no limit distribution
STATELIMITMAX == 1000000

\* packets of at most this many bytes are "small"
MAXSMALLPACKETSIZE == 1

\* the MTU given to Framework::new
InitialMTU == 2

---------------------------------------------------------------------------
(* Fractions and f64 arithmetic *)

Frac(n, d) == [num |-> n, den |-> d]

\* x > 0.0
FracPositive(x) == x.num > 0

\* (a as f64 / b as f64) >= x: with b = 0 the quotient is NaN (a = 0), for
\* which every comparison is false, or +infinity (a > 0)
F64DivGe(a, b, x) ==
    IF b = 0 THEN a > 0 ELSE a * x.den >= x.num * b

Min(a, b) == IF a < b THEN a ELSE b

---------------------------------------------------------------------------
(* Events and actions *)

NonPaddingRecv(n) == [type |-> "NonPaddingRecv", bytes_recv |-> n]
PaddingRecv(n) == [type |-> "PaddingRecv", bytes_recv |-> n]
NonPaddingSent(n) == [type |-> "NonPaddingSent", bytes_sent |-> n]
PaddingSent(n, m) == [type |-> "PaddingSent", bytes_sent |-> n, machine |-> m]
BlockingBegin(m) == [type |-> "BlockingBegin", machine |-> m]
BlockingEnd == [type |-> "BlockingEnd"]
LimitReached(m) == [type |-> "LimitReached", machine |-> m]
UpdateMTU(n) == [type |-> "UpdateMTU", new_mtu |-> n]

\* Option<Action>::None
None == [kind |-> "None"]

Cancel(mi) == [kind |-> "Cancel", machine |-> mi]

InjectPadding(timeout, size, mi) ==
    [kind |-> "InjectPadding", timeout |-> timeout, size |-> size,
     machine |-> mi]

BlockOutgoing(timeout, duration, overwrite, mi) ==
    [kind |-> "BlockOutgoing", timeout |-> timeout, duration |-> duration,
     overwrite |-> overwrite, machine |-> mi]

---------------------------------------------------------------------------
(* Distributions, states and machines *)

NoDist == [dist |-> "None", param1 |-> 0, param2 |-> 0]
Uniform(a, b) == [dist |-> "Uniform", param1 |-> a, param2 |-> b]

\* the values a sample of the distribution, rounded, can take
DistSamples(d) == d.param1 .. d.param2

\* State::sample_limit
SampleLimit(s) ==
    IF s.limit.dist = "None" THEN {STATELIMITMAX}
    ELSE {Min(v, STATELIMITMAX) : v \in DistSamples(s.limit)}

\* State::sample_timeout
SampleTimeout(s) == DistSamples(s.timeout)

\* State::sample_block
SampleBlock(s) == DistSamples(s.action)

\* State::sample_size: the MTU when the state declares no size
SampleSize(s, mtu) ==
    IF s.action.dist = "None" THEN {mtu}
    ELSE {Min(v, mtu) : v \in DistSamples(s.action)}

One == ProbDenom
Half == ProbDenom \div 2
Quarter == ProbDenom \div 4

\* a state of a machine; next_state maps an event to the probabilities of
\* the machine's states followed by those of STATECANCEL and STATEEND
State(next_state, timeout, action, is_block, overwrite, limit, incl) ==
    [next_state |-> next_state, timeout |-> timeout, action |-> action,
     action_is_block |-> is_block, block_overwrite |-> overwrite,
     limit |-> limit, limit_includes_nonpadding |-> incl]

\* states are indexed from 0, as in the code
Vec(seq) == [i \in 0 .. Len(seq) - 1 |-> seq[i + 1]]

VecLen(v) == Cardinality(DOMAIN v)

Machine(allowed_padding_bytes, max_padding_frac, allowed_blocked_microsec, max_blocking_frac, include_small_packets, states) ==
    [allowed_padding_bytes |-> allowed_padding_bytes,
     max_padding_frac |-> max_padding_frac,
     allowed_blocked_microsec |-> allowed_blocked_microsec,
     max_blocking_frac |-> max_blocking_frac,
     include_small_packets |-> include_small_packets,
     states |-> Vec(states)]

---------------------------------------------------------------------------
(* The execution of one trigger_events call.  A context x holds the        *)
(* Framework being mutated (x.f), whether the call has panicked, and the   *)
(* history of the call so far.                                             *)

NumMachines(f) == VecLen(f.machines)

MachineIds(f) == DOMAIN f.machines

\* the framework-wide counters a limit check reads
Globals(f) ==
    [padding |-> f.global_paddingsent_bytes,
     nonpadding |-> f.global_nonpadding_sent_bytes,
     blocking_duration |-> f.global_blocking_duration,
     blocking_started |-> f.global_blocking_started,
     blocking_active |-> f.global_blocking_active,
     now |-> f.current_time]

Log(x, rec) == [x EXCEPT !.trace = Append(@, rec)]

Panic(x) == [x EXCEPT !.panicked = TRUE]

\* below_limit_padding without the budget of allowed_padding_bytes
BelowLimitPaddingNoBudget(f, runtime, machine) ==
    LET total == runtime.nonpadding_sent + runtime.padding_sent
    IN IF /\ FracPositive(machine.max_padding_frac)
          /\ \/ total = 0
             \/ F64DivGe(runtime.padding_sent, total,
                         machine.max_padding_frac)
       THEN FALSE
       ELSE IF /\ FracPositive(f.global_max_padding_frac)
               /\ F64DivGe(f.global_paddingsent_bytes,
                           f.global_paddingsent_bytes
                               + f.global_nonpadding_sent_bytes,
                           f.global_max_padding_frac)
       THEN FALSE
       ELSE runtime.state_limit > 0

\* below_limit_padding without the check of the framework's cap
BelowLimitPaddingNoGlobal(f, runtime, machine) ==
    IF runtime.padding_sent < machine.allowed_padding_bytes
    THEN runtime.state_limit > 0
    ELSE LET total == runtime.nonpadding_sent + runtime.padding_sent
         IN IF /\ FracPositive(machine.max_padding_frac)
               /\ \/ total = 0
                  \/ F64DivGe(runtime.padding_sent, total,
                              machine.max_padding_frac)
            THEN FALSE
            ELSE runtime.state_limit > 0

\* below_limit_padding with the cap of the framework consulted only when
\* the machine has no cap
BelowLimitPaddingElseIf(f, runtime, machine) ==
    IF runtime.padding_sent < machine.allowed_padding_bytes
    THEN runtime.state_limit > 0
    ELSE LET total == runtime.nonpadding_sent + runtime.padding_sent
         IN IF FracPositive(machine.max_padding_frac)
            THEN /\ total # 0
                 /\ ~F64DivGe(runtime.padding_sent, total,
                              machine.max_padding_frac)
                 /\ runtime.state_limit > 0
            ELSE IF /\ FracPositive(f.global_max_padding_frac)
                    /\ F64DivGe(f.global_paddingsent_bytes,
                                f.global_paddingsent_bytes
                                    + f.global_nonpadding_sent_bytes,
                                f.global_max_padding_frac)
            THEN FALSE
            ELSE runtime.state_limit > 0

\* Framework::below_limit_padding
BelowLimitPadding(f, runtime, machine) ==
    IF runtime.padding_sent < machine.allowed_padding_bytes
    THEN runtime.state_limit > 0
    ELSE LET total == runtime.nonpadding_sent + runtime.padding_sent
             machine_says_no ==
                 /\ FracPositive(machine.max_padding_frac)
                 /\ \/ total = 0
                    \/ F64DivGe(runtime.padding_sent, total,
                                machine.max_padding_frac)
             framework_says_no ==
                 /\ FracPositive(f.global_max_padding_frac)
                 /\ F64DivGe(f.global_paddingsent_bytes,
                             f.global_paddingsent_bytes
                                 + f.global_nonpadding_sent_bytes,
                             f.global_max_padding_frac)
         IN IF machine_says_no THEN FALSE
            ELSE IF framework_says_no THEN FALSE
            ELSE runtime.state_limit > 0

\* below_limit_blocking with the checks of both caps left out
BelowLimitBlockingNoCaps(f, runtime, machine) ==
    runtime.state_limit > 0

\* below_limit_blocking that compares the fractions with the caps also
\* when a cap is 0
BelowLimitBlockingZeroCapForbids(f, runtime, machine) ==
    LET current == machine.states[runtime.current_state]
        ongoing == IF f.global_blocking_active
                   THEN f.current_time - f.global_blocking_started
                   ELSE 0
        m_block_dur == runtime.blocking_duration + ongoing
        g_block_dur == f.global_blocking_duration + ongoing
    IN IF current.block_overwrite /\ ~f.global_blocking_active
       THEN runtime.state_limit > 0
       ELSE IF m_block_dur < machine.allowed_blocked_microsec
       THEN runtime.state_limit > 0
       ELSE IF F64DivGe(m_block_dur, f.current_time - runtime.machine_start,
                        machine.max_blocking_frac)
       THEN FALSE
       ELSE IF F64DivGe(g_block_dur,
                        f.current_time - f.global_framework_start,
                        f.global_max_blocking_frac)
       THEN FALSE
       ELSE runtime.state_limit > 0

\* below_limit_blocking that lets a block that overwrites pass also while
\* blocking is active
BelowLimitBlockingOverwriteAlways(f, runtime, machine) ==
    LET current == machine.states[runtime.current_state]
        ongoing == IF f.global_blocking_active
                   THEN f.current_time - f.global_blocking_started
                   ELSE 0
        m_block_dur == runtime.blocking_duration + ongoing
        g_block_dur == f.global_blocking_duration + ongoing
    IN IF current.block_overwrite
       THEN runtime.state_limit > 0
       ELSE IF m_block_dur < machine.allowed_blocked_microsec
       THEN runtime.state_limit > 0
       ELSE IF /\ FracPositive(machine.max_blocking_frac)
               /\ F64DivGe(m_block_dur,
                           f.current_time - runtime.machine_start,
                           machine.max_blocking_frac)
       THEN FALSE
       ELSE IF /\ FracPositive(f.global_max_blocking_frac)
               /\ F64DivGe(g_block_dur,
                           f.current_time - f.global_framework_start,
                           f.global_max_blocking_frac)
       THEN FALSE
       ELSE runtime.state_limit > 0

\* Framework::below_limit_blocking
BelowLimitBlocking(f, runtime, machine) ==
    LET current == machine.states[runtime.current_state]
        ongoing == IF f.global_blocking_active
                   THEN f.current_time - f.global_blocking_started
                   ELSE 0
        m_block_dur == runtime.blocking_duration + ongoing
        g_block_dur == f.global_blocking_duration + ongoing
        machine_says_no ==
            /\ FracPositive(machine.max_blocking_frac)
            /\ F64DivGe(m_block_dur, f.current_time - runtime.machine_start,
                        machine.max_blocking_frac)
        framework_says_no ==
            /\ FracPositive(f.global_max_blocking_frac)
            /\ F64DivGe(g_block_dur,
                        f.current_time - f.global_framework_start,
                        f.global_max_blocking_frac)
    IN IF current.block_overwrite /\ ~f.global_blocking_active
       THEN runtime.state_limit > 0
       ELSE IF m_block_dur < machine.allowed_blocked_microsec
       THEN runtime.state_limit > 0
       ELSE IF machine_says_no THEN FALSE
       ELSE IF framework_says_no THEN FALSE
       ELSE runtime.state_limit > 0

\* below_action_limits that lets a block that overwrites pass while nothing
\* is blocked, whatever the state limit
BelowActionLimitsOverwriting(f, runtime, machine) ==
    LET current == machine.states[runtime.current_state]
    IN IF current.action_is_block
       THEN \/ current.block_overwrite /\ ~f.global_blocking_active
            \/ BelowLimitBlocking(f, runtime, machine)
       ELSE BelowLimitPadding(f, runtime, machine)

\* Framework::below_action_limits
BelowActionLimits(f, runtime, machine) ==
    IF machine.states[runtime.current_state].action_is_block
    THEN BelowLimitBlocking(f, runtime, machine)
    ELSE BelowLimitPadding(f, runtime, machine)

\* schedule_action that names machine 0 in every action
ScheduleActionFirstMachine(f, runtime, machine, mi) ==
    LET current == machine.states[runtime.current_state]
    IN IF current.action_is_block
       THEN {BlockOutgoing(t, d, current.block_overwrite, 0) :
                t \in SampleTimeout(current), d \in SampleBlock(current)}
       ELSE {InjectPadding(t, s, 0) :
                t \in SampleTimeout(current),
                s \in SampleSize(current, f.mtu)}

\* Framework::schedule_action: the actions it can return
ScheduleAction(f, runtime, machine, mi) ==
    LET current == machine.states[runtime.current_state]
    IN IF current.action_is_block
       THEN {BlockOutgoing(t, d, current.block_overwrite, mi) :
                t \in SampleTimeout(current), d \in SampleBlock(current)}
       ELSE {InjectPadding(t, s, mi) :
                t \in SampleTimeout(current),
                s \in SampleSize(current, f.mtu)}

\* Framework::next_state for the draw p (in units of 1/ProbDenom): the
\* loop over next_prop from index i on, with the running sum total
RECURSIVE NextStateScan(_, _, _, _)
NextStateScan(next_prop, p, i, total) ==
    IF i >= Len(next_prop) THEN <<STATENOP, FALSE>>
    ELSE LET t == total + next_prop[i + 1]
         IN IF p <= t
            THEN IF i + 2 < Len(next_prop) THEN <<i, TRUE>>
                 ELSE IF i + 2 = Len(next_prop) THEN <<STATECANCEL, TRUE>>
                 ELSE <<STATEEND, TRUE>>
            ELSE NextStateScan(next_prop, p, i + 1, t)

\* next_state that takes the slot of STATECANCEL for one more state
NextStateCancelAsState(runtime, machine, event, p) ==
    LET current == machine.states[runtime.current_state]
        ns == IF event \notin DOMAIN current.next_state THEN <<0, FALSE>>
              ELSE NextStateScan(current.next_state[event], p, 0, 0)
    IN IF ns[1] = STATECANCEL THEN <<VecLen(machine.states), TRUE>> ELSE ns

\* Framework::next_state
NextState(runtime, machine, event, p) ==
    LET current == machine.states[runtime.current_state]
    IN IF event \notin DOMAIN current.next_state THEN <<0, FALSE>>
       ELSE NextStateScan(current.next_state[event], p, 0, 0)

\* the record of one call of transition in the history: outcome says which
\* return was taken, rt and g are the runtime and the framework counters
\* the limits were (or would have been) checked against, below is the
\* answer of below_action_limits, action the pending action it set and
\* pending the one it found
TransitionRec(x, mi, event, n, from, outcome, below, action) ==
    [op |-> "transition", mi |-> mi, event |-> event, n |-> n,
     from |-> from, outcome |-> outcome, below |-> below,
     action |-> action, pending |-> x.f.actions[mi],
     rt |-> x.f.runtime[mi], g |-> Globals(x.f)]

\* the tail of transition's last arm: check the limits of the (new) current
\* state and, below them, set the pending action
ScheduleIfBelow(x, mi, event, n, from, outcome, change) ==
    LET machine == x.f.machines[mi]
        rt == x.f.runtime[mi]
    IN IF BelowActionLimits(x.f, rt, machine)
       THEN {[x |-> Log([x EXCEPT !.f.actions[mi] = a],
                        TransitionRec(x, mi, event, n, from, outcome,
                                      TRUE, a)),
              change |-> change] :
                a \in ScheduleAction(x.f, rt, machine, mi)}
       ELSE {[x |-> Log(x, TransitionRec(x, mi, event, n, from, outcome,
                                         FALSE, None)),
              change |-> change]}

\* transition that cancels only below the limits of the current state
TransitionActCancelBelowLimits(x, mi, event, n, ns) ==
    LET machine == x.f.machines[mi]
        from == x.f.runtime[mi].current_state
        next_state == ns[1]
        Quiet(outcome) ==
            {[x |-> Log(x, TransitionRec(x, mi, event, n, from, outcome,
                                         FALSE, None)),
              change |-> "Unchanged"]}
    IN IF ~ns[2] THEN Quiet("no_next")
       ELSE IF /\ next_state = STATECANCEL
               /\ ~BelowActionLimits(x.f, x.f.runtime[mi], machine)
       THEN Quiet("no_next")
       ELSE IF next_state = STATECANCEL
       THEN {[x |-> Log([x EXCEPT !.f.actions[mi] = Cancel(mi)],
                        TransitionRec(x, mi, event, n, from, "cancel",
                                      FALSE, Cancel(mi))),
              change |-> "Unchanged"]}
       ELSE IF next_state = STATEEND
       THEN LET x1 == [x EXCEPT !.f.runtime[mi].current_state = STATEEND]
            IN {[x |-> Log(x1, TransitionRec(x1, mi, event, n, from, "end",
                                             FALSE, None)),
                 change |-> "Changed"]}
       ELSE IF from = next_state
       THEN ScheduleIfBelow(x, mi, event, n, from, "same", "Unchanged")
       ELSE IF next_state \notin DOMAIN machine.states
       THEN \* machine.states[next_state] is out of bounds
            {[x |-> Panic([x EXCEPT
                              !.f.runtime[mi].current_state = next_state]),
              change |-> "Changed"]}
       ELSE UNION {
              ScheduleIfBelow(
                  [x EXCEPT !.f.runtime[mi].current_state = next_state,
                            !.f.runtime[mi].state_limit = lim],
                  mi, event, n, from, "changed", "Changed") :
              lim \in SampleLimit(machine.states[next_state])}

\* transition, once next_state has answered ns = <<next_state, set>>
TransitionAct(x, mi, event, n, ns) ==
    LET machine == x.f.machines[mi]
        from == x.f.runtime[mi].current_state
        next_state == ns[1]
        Quiet(outcome) ==
            {[x |-> Log(x, TransitionRec(x, mi, event, n, from, outcome,
                                         FALSE, None)),
              change |-> "Unchanged"]}
    IN IF ~ns[2] THEN Quiet("no_next")
       ELSE IF next_state = STATECANCEL
       THEN {[x |-> Log([x EXCEPT !.f.actions[mi] = Cancel(mi)],
                        TransitionRec(x, mi, event, n, from, "cancel",
                                      FALSE, Cancel(mi))),
              change |-> "Unchanged"]}
       ELSE IF next_state = STATEEND
       THEN LET x1 == [x EXCEPT !.f.runtime[mi].current_state = STATEEND]
            IN {[x |-> Log(x1, TransitionRec(x1, mi, event, n, from, "end",
                                             FALSE, None)),
                 change |-> "Changed"]}
       ELSE IF from = next_state
       THEN ScheduleIfBelow(x, mi, event, n, from, "same", "Unchanged")
       ELSE IF next_state \notin DOMAIN machine.states
       THEN \* machine.states[next_state] is out of bounds
            {[x |-> Panic([x EXCEPT
                              !.f.runtime[mi].current_state = next_state]),
              change |-> "Changed"]}
       ELSE UNION {
              ScheduleIfBelow(
                  [x EXCEPT !.f.runtime[mi].current_state = next_state,
                            !.f.runtime[mi].state_limit = lim],
                  mi, event, n, from, "changed", "Changed") :
              lim \in SampleLimit(machine.states[next_state])}

\* transition without the check for STATEEND: a machine that has ended
\* starts again from state 0
TransitionRestartsFromEnd(x, mi, event, n) ==
    LET x0 == IF x.f.runtime[mi].current_state = STATEEND
              THEN [x EXCEPT !.f.runtime[mi].current_state = 0]
              ELSE x
        machine == x0.f.machines[mi]
        rt == x0.f.runtime[mi]
    IN IF /\ ~machine.include_small_packets
          /\ n > 0
          /\ n <= MAXSMALLPACKETSIZE
       THEN {[x |-> Log(x0, TransitionRec(x0, mi, event, n,
                                          rt.current_state, "small", FALSE,
                                          None)),
              change |-> "Unchanged"]}
       ELSE UNION {TransitionAct(x0, mi, event, n, ns) :
                   ns \in {NextState(rt, machine, event, p) :
                              p \in 0 .. ProbDenom - 1}}

\* transition without the check for small packets
TransitionCountsSmallPackets(x, mi, event, n) ==
    LET machine == x.f.machines[mi]
        rt == x.f.runtime[mi]
    IN IF rt.current_state = STATEEND
       THEN {[x |-> Log(x, TransitionRec(x, mi, event, n, rt.current_state,
                                         "in_end", FALSE, None)),
              change |-> "Unchanged"]}
       ELSE UNION {TransitionAct(x, mi, event, n, ns) :
                   ns \in {NextState(rt, machine, event, p) :
                              p \in 0 .. ProbDenom - 1}}

\* Framework::transition: the outcomes [x, change] of one call
Transition(x, mi, event, n) ==
    LET machine == x.f.machines[mi]
        rt == x.f.runtime[mi]
        Quiet(outcome) ==
            {[x |-> Log(x, TransitionRec(x, mi, event, n, rt.current_state,
                                         outcome, FALSE, None)),
              change |-> "Unchanged"]}
    IN IF rt.current_state = STATEEND THEN Quiet("in_end")
       ELSE IF /\ ~machine.include_small_packets
               /\ n > 0
               /\ n <= MAXSMALLPACKETSIZE
       THEN Quiet("small")
       ELSE UNION {TransitionAct(x, mi, event, n, ns) :
                   ns \in {NextState(rt, machine, event, p) :
                              p \in 0 .. ProbDenom - 1}}

\* process_event, the LimitReached arm
LimitReachedArm(x, machine) ==
    {o.x : o \in Transition(x, machine, "LimitReached", 0)}

\* decrement_limit that leaves the pending action in place
DecrementLimitKeepsAction(x, mi) ==
    LET before == x.f.runtime[mi].state_limit
        after == IF before > 0 THEN before - 1 ELSE before
        x1 == [x EXCEPT !.f.runtime[mi].state_limit = after]
        cs == x.f.runtime[mi].current_state
        Rec(reached) == [op |-> "decrement", mi |-> mi, cs |-> cs,
                         before |-> before, after |-> after,
                         reached |-> reached]
    IN IF after # 0 THEN {Log(x1, Rec(FALSE))}
       ELSE IF cs \notin DOMAIN x.f.machines[mi].states
       THEN {Panic(Log(x1, Rec(FALSE)))}
       ELSE IF x.f.machines[mi].states[cs].limit.dist # "None"
       THEN LimitReachedArm(Log(x1, Rec(TRUE)), mi)
       ELSE {Log(x1, Rec(FALSE))}

\* decrement_limit whose update of state_limit can be lost
DecrementLimitLostUpdate(x, mi) ==
    LET before == x.f.runtime[mi].state_limit
        after == IF before > 0 THEN before - 1 ELSE before
        x1 == [x EXCEPT !.f.runtime[mi].state_limit = after]
        cs == x.f.runtime[mi].current_state
        Rec(reached) == [op |-> "decrement", mi |-> mi, cs |-> cs,
                         before |-> before, after |-> after,
                         reached |-> reached]
    IN IF after # 0 THEN {Log(x1, Rec(FALSE)), Log(x, Rec(FALSE))}
       ELSE IF cs \notin DOMAIN x.f.machines[mi].states
       THEN {Panic(Log(x1, Rec(FALSE)))}
       ELSE IF x.f.machines[mi].states[cs].limit.dist # "None"
       THEN LimitReachedArm(
                Log([x1 EXCEPT !.f.actions[mi] = None], Rec(TRUE)), mi)
       ELSE {Log(x1, Rec(FALSE))}

\* decrement_limit that triggers LimitReached twice at a reached limit
DecrementLimitDispatchesTwice(x, mi) ==
    LET before == x.f.runtime[mi].state_limit
        after == IF before > 0 THEN before - 1 ELSE before
        x1 == [x EXCEPT !.f.runtime[mi].state_limit = after]
        cs == x.f.runtime[mi].current_state
        Rec(reached) == [op |-> "decrement", mi |-> mi, cs |-> cs,
                         before |-> before, after |-> after,
                         reached |-> reached]
    IN IF after # 0 THEN {Log(x1, Rec(FALSE))}
       ELSE IF cs \notin DOMAIN x.f.machines[mi].states
       THEN {Panic(Log(x1, Rec(FALSE)))}
       ELSE IF x.f.machines[mi].states[cs].limit.dist # "None"
       THEN UNION {LimitReachedArm(z, mi) :
                   z \in LimitReachedArm(
                             Log([x1 EXCEPT !.f.actions[mi] = None],
                                 Rec(TRUE)), mi)}
       ELSE {Log(x1, Rec(FALSE))}

\* Framework::decrement_limit
DecrementLimit(x, mi) ==
    LET before == x.f.runtime[mi].state_limit
        after == IF before > 0 THEN before - 1 ELSE before
        x1 == [x EXCEPT !.f.runtime[mi].state_limit = after]
        cs == x.f.runtime[mi].current_state
        Rec(reached) == [op |-> "decrement", mi |-> mi, cs |-> cs,
                         before |-> before, after |-> after,
                         reached |-> reached]
    IN IF after # 0 THEN {Log(x1, Rec(FALSE))}
       ELSE IF cs \notin DOMAIN x.f.machines[mi].states
       THEN \* self.machines[mi].states[cs] is out of bounds
            {Panic(Log(x1, Rec(FALSE)))}
       ELSE IF x.f.machines[mi].states[cs].limit.dist # "None"
       THEN LimitReachedArm(
                Log([x1 EXCEPT !.f.actions[mi] = None], Rec(TRUE)), mi)
       ELSE {Log(x1, Rec(FALSE))}

\* transition followed by decrement_limit also when the state has changed
TransitionThenDecrementAlways(x, mi, event, n, decrement) ==
    UNION {IF ~o.x.panicked /\ decrement
           THEN DecrementLimit(o.x, mi)
           ELSE {o.x} :
           o \in Transition(x, mi, event, n)}

\* the outcomes of transition followed, when the state is unchanged and
\* decrement holds, by decrement_limit
TransitionThenDecrement(x, mi, event, n, decrement) ==
    UNION {IF o.change = "Unchanged" /\ ~o.x.panicked /\ decrement
           THEN DecrementLimit(o.x, mi)
           ELSE {o.x} :
           o \in Transition(x, mi, event, n)}

\* the body of the loop of process_event whose PaddingSent arm does not
\* look at the machine of the event: every machine counts the padding
EventBodyPaddingSentByAll(x, mi, e, blocked) ==
    CASE e.type = "NonPaddingRecv" ->
            {o.x : o \in Transition(x, mi, "NonPaddingRecv", e.bytes_recv)}
      [] e.type = "PaddingRecv" ->
            {o.x : o \in Transition(x, mi, "PaddingRecv", e.bytes_recv)}
      [] e.type = "NonPaddingSent" ->
            LET x1 == [x EXCEPT !.f.runtime[mi].nonpadding_sent =
                                    @ + e.bytes_sent]
            IN UNION {
                 IF o.change = "Unchanged"
                 THEN LET cs == o.x.f.runtime[mi].current_state
                      IN IF cs # STATEEND
                            /\ o.x.f.machines[mi].states[cs]
                                   .limit_includes_nonpadding
                         THEN DecrementLimit(o.x, mi)
                         ELSE {o.x}
                 ELSE {o.x} :
                 o \in Transition(x1, mi, "NonPaddingSent", e.bytes_sent)}
      [] e.type = "PaddingSent" ->
            TransitionThenDecrement(
                [x EXCEPT !.f.runtime[mi].padding_sent = @ + e.bytes_sent],
                mi, "PaddingSent", e.bytes_sent, TRUE)
      [] e.type = "BlockingBegin" ->
            TransitionThenDecrement(x, mi, "BlockingBegin", 0,
                                    mi = e.machine)
      [] e.type = "BlockingEnd" ->
            LET x1 == IF blocked # 0
                      THEN [x EXCEPT !.f.runtime[mi].blocking_duration =
                                         @ + blocked]
                      ELSE x
            IN {o.x : o \in Transition(x1, mi, "BlockingEnd", 0)}
      [] e.type = "UpdateMTU" ->
            {o.x : o \in Transition(x, mi, "UpdateMTU", e.new_mtu)}

\* process_event: the body of the loop over the machines, for machine mi;
\* blocked is the duration BlockingEnd has just accounted
EventBody(x, mi, e, blocked) ==
    CASE e.type = "NonPaddingRecv" ->
            {o.x : o \in Transition(x, mi, "NonPaddingRecv", e.bytes_recv)}
      [] e.type = "PaddingRecv" ->
            {o.x : o \in Transition(x, mi, "PaddingRecv", e.bytes_recv)}
      [] e.type = "NonPaddingSent" ->
            LET x1 == [x EXCEPT !.f.runtime[mi].nonpadding_sent =
                                    @ + e.bytes_sent]
            IN UNION {
                 IF o.change = "Unchanged"
                 THEN LET cs == o.x.f.runtime[mi].current_state
                      IN IF cs # STATEEND
                            /\ o.x.f.machines[mi].states[cs]
                                   .limit_includes_nonpadding
                         THEN DecrementLimit(o.x, mi)
                         ELSE {o.x}
                 ELSE {o.x} :
                 o \in Transition(x1, mi, "NonPaddingSent", e.bytes_sent)}
      [] e.type = "PaddingSent" ->
            IF mi = e.machine
            THEN TransitionThenDecrement(
                     [x EXCEPT !.f.runtime[mi].padding_sent =
                                   @ + e.bytes_sent],
                     mi, "PaddingSent", e.bytes_sent, TRUE)
            ELSE {x}
      [] e.type = "BlockingBegin" ->
            TransitionThenDecrement(x, mi, "BlockingBegin", 0,
                                    mi = e.machine)
      [] e.type = "BlockingEnd" ->
            LET x1 == IF blocked # 0
                      THEN [x EXCEPT !.f.runtime[mi].blocking_duration =
                                         @ + blocked]
                      ELSE x
            IN {o.x : o \in Transition(x1, mi, "BlockingEnd", 0)}
      [] e.type = "UpdateMTU" ->
            {o.x : o \in Transition(x, mi, "UpdateMTU", e.new_mtu)}

\* process_event: for mi in 0..self.runtime.len(), from machine mi on; a
\* panic ends the call
RECURSIVE ForMachines(_, _, _, _)
ForMachines(xs, mi, e, blocked) ==
    IF xs = {} THEN {}
    ELSE LET len == NumMachines((CHOOSE x \in xs : TRUE).f)
         IN IF mi >= len THEN xs
            ELSE ForMachines(
                     UNION {IF x.panicked THEN {x}
                            ELSE EventBody(x, mi, e, blocked) : x \in xs},
                     mi + 1, e, blocked)

\* process_event whose BlockingEnd arm assigns the duration of the block
\* that ends to global_blocking_duration instead of adding it
ProcessEventAssignsDuration(x, e) ==
    CASE e.type = "NonPaddingSent" ->
            ForMachines(
                {[x EXCEPT !.f.global_nonpadding_sent_bytes =
                               @ + e.bytes_sent]}, 0, e, 0)
      [] e.type = "PaddingSent" ->
            ForMachines(
                {[x EXCEPT !.f.global_paddingsent_bytes =
                               @ + e.bytes_sent]}, 0, e, 0)
      [] e.type = "BlockingBegin" ->
            ForMachines(
                {IF ~x.f.global_blocking_active
                 THEN [x EXCEPT !.f.global_blocking_active = TRUE,
                                !.f.global_blocking_started =
                                    x.f.current_time]
                 ELSE x}, 0, e, 0)
      [] e.type = "BlockingEnd" ->
            LET blocked == IF x.f.global_blocking_active
                           THEN x.f.current_time
                                    - x.f.global_blocking_started
                           ELSE 0
                x1 == IF x.f.global_blocking_active
                      THEN [x EXCEPT !.f.global_blocking_duration =
                                         blocked,
                                     !.f.global_blocking_active = FALSE]
                      ELSE x
            IN ForMachines({x1}, 0, e, blocked)
      [] e.type = "LimitReached" -> LimitReachedArm(x, e.machine)
      [] e.type = "UpdateMTU" ->
            ForMachines({[x EXCEPT !.f.mtu = e.new_mtu]}, 0, e, 0)
      [] OTHER -> ForMachines({x}, 0, e, 0)

\* process_event whose BlockingBegin arm records the start of the block
\* whether or not blocking is active already
ProcessEventRestartsBlocking(x, e) ==
    CASE e.type = "NonPaddingSent" ->
            ForMachines(
                {[x EXCEPT !.f.global_nonpadding_sent_bytes =
                               @ + e.bytes_sent]}, 0, e, 0)
      [] e.type = "PaddingSent" ->
            ForMachines(
                {[x EXCEPT !.f.global_paddingsent_bytes =
                               @ + e.bytes_sent]}, 0, e, 0)
      [] e.type = "BlockingBegin" ->
            ForMachines(
                {[x EXCEPT !.f.global_blocking_active = TRUE,
                           !.f.global_blocking_started = x.f.current_time]},
                0, e, 0)
      [] e.type = "BlockingEnd" ->
            LET blocked == IF x.f.global_blocking_active
                           THEN x.f.current_time
                                    - x.f.global_blocking_started
                           ELSE 0
                x1 == IF x.f.global_blocking_active
                      THEN [x EXCEPT !.f.global_blocking_duration =
                                         @ + blocked,
                                     !.f.global_blocking_active = FALSE]
                      ELSE x
            IN ForMachines({x1}, 0, e, blocked)
      [] e.type = "LimitReached" -> LimitReachedArm(x, e.machine)
      [] e.type = "UpdateMTU" ->
            ForMachines({[x EXCEPT !.f.mtu = e.new_mtu]}, 0, e, 0)
      [] OTHER -> ForMachines({x}, 0, e, 0)

\* process_event that leaves the padding bytes of the framework alone
ProcessEventPaddingUncounted(x, e) ==
    CASE e.type = "NonPaddingSent" ->
            ForMachines(
                {[x EXCEPT !.f.global_nonpadding_sent_bytes =
                               @ + e.bytes_sent]}, 0, e, 0)
      [] e.type = "PaddingSent" ->
            ForMachines({x}, 0, e, 0)
      [] e.type = "BlockingBegin" ->
            ForMachines(
                {IF ~x.f.global_blocking_active
                 THEN [x EXCEPT !.f.global_blocking_active = TRUE,
                                !.f.global_blocking_started =
                                    x.f.current_time]
                 ELSE x}, 0, e, 0)
      [] e.type = "BlockingEnd" ->
            LET blocked == IF x.f.global_blocking_active
                           THEN x.f.current_time
                                    - x.f.global_blocking_started
                           ELSE 0
                x1 == IF x.f.global_blocking_active
                      THEN [x EXCEPT !.f.global_blocking_duration =
                                         @ + blocked,
                                     !.f.global_blocking_active = FALSE]
                      ELSE x
            IN ForMachines({x1}, 0, e, blocked)
      [] e.type = "LimitReached" -> LimitReachedArm(x, e.machine)
      [] e.type = "UpdateMTU" ->
            ForMachines({[x EXCEPT !.f.mtu = e.new_mtu]}, 0, e, 0)
      [] OTHER -> ForMachines({x}, 0, e, 0)

\* Framework::process_event
ProcessEvent(x, e) ==
    CASE e.type = "NonPaddingSent" ->
            ForMachines(
                {[x EXCEPT !.f.global_nonpadding_sent_bytes =
                               @ + e.bytes_sent]}, 0, e, 0)
      [] e.type = "PaddingSent" ->
            ForMachines(
                {[x EXCEPT !.f.global_paddingsent_bytes =
                               @ + e.bytes_sent]}, 0, e, 0)
      [] e.type = "BlockingBegin" ->
            ForMachines(
                {IF ~x.f.global_blocking_active
                 THEN [x EXCEPT !.f.global_blocking_active = TRUE,
                                !.f.global_blocking_started =
                                    x.f.current_time]
                 ELSE x}, 0, e, 0)
      [] e.type = "BlockingEnd" ->
            LET blocked == IF x.f.global_blocking_active
                           THEN x.f.current_time
                                    - x.f.global_blocking_started
                           ELSE 0
                x1 == IF x.f.global_blocking_active
                      THEN [x EXCEPT !.f.global_blocking_duration =
                                         @ + blocked,
                                     !.f.global_blocking_active = FALSE]
                      ELSE x
            IN ForMachines({x1}, 0, e, blocked)
      [] e.type = "LimitReached" -> LimitReachedArm(x, e.machine)
      [] e.type = "UpdateMTU" ->
            ForMachines({[x EXCEPT !.f.mtu = e.new_mtu]}, 0, e, 0)
      [] OTHER -> ForMachines({x}, 0, e, 0)

\* the loop of trigger_events run from the last event to the first
RECURSIVE ForEventsReversed(_, _, _)
ForEventsReversed(xs, events, i) ==
    IF i > Len(events) THEN xs
    ELSE ForEventsReversed(
             UNION {IF x.panicked THEN {x}
                    ELSE ProcessEvent(x, events[Len(events) + 1 - i]) :
                    x \in xs},
             events, i + 1)

\* trigger_events: for e in events, from the i-th event on
RECURSIVE ForEvents(_, _, _)
ForEvents(xs, events, i) ==
    IF i > Len(events) THEN xs
    ELSE ForEvents(
             UNION {IF x.panicked THEN {x} ELSE ProcessEvent(x, events[i]) :
                    x \in xs},
             events, i + 1)

\* self.actions.iter().filter_map(|action| action.as_ref())
RECURSIVE FilterActions(_, _)
FilterActions(actions, i) ==
    IF i \notin DOMAIN actions THEN <<>>
    ELSE (IF actions[i] = None THEN <<>> ELSE <<actions[i]>>)
             \o FilterActions(actions, i + 1)

\* trigger_events without self.actions.fill(None)
TriggerEventsKeepsActions(f, events, current_time) ==
    ForEvents({[f |-> [f EXCEPT !.current_time = current_time],
                panicked |-> FALSE, trace |-> <<>>]},
              events, 1)

\* Framework::trigger_events: the contexts a call can end in
TriggerEventsOutcomes(f, events, current_time) ==
    LET reset == [f EXCEPT !.actions = [mi \in DOMAIN f.actions |-> None],
                           !.current_time = current_time]
    IN ForEvents({[f |-> reset, panicked |-> FALSE, trace |-> <<>>]},
                 events, 1)

---------------------------------------------------------------------------
(* The machines and frameworks the model runs *)

\* with two states: go to state 1 for sure
ToState1 == <<0, One, 0, 0>>

\* a padding machine: state 0 waits for traffic, state 1 pads on every
\* event it sees (the machine of tests::machine_max_padding_frac)
PaddingMachine(allowed_padding_bytes, max_padding_frac, limit, incl) ==
    Machine(allowed_padding_bytes, max_padding_frac, 0, Frac(0, 1), TRUE,
        <<State([NonPaddingRecv |-> ToState1, NonPaddingSent |-> ToState1],
                NoDist, NoDist, FALSE, FALSE, NoDist, FALSE),
          State([PaddingSent |-> ToState1, NonPaddingSent |-> ToState1,
                 NonPaddingRecv |-> ToState1],
                Uniform(2, 2), NoDist, FALSE, FALSE, limit, incl)>>)

\* a blocking machine: state 1 blocks for 2us after 2us on every event it
\* sees (the machine of tests::machine_max_blocking_frac)
BlockingMachine(allowed_blocked_microsec, max_blocking_frac, overwrite) ==
    Machine(0, Frac(0, 1), allowed_blocked_microsec, max_blocking_frac,
        FALSE,
        <<State([NonPaddingRecv |-> ToState1],
                NoDist, NoDist, FALSE, FALSE, NoDist, FALSE),
          State([BlockingBegin |-> ToState1, BlockingEnd |-> ToState1,
                 NonPaddingRecv |-> ToState1],
                Uniform(2, 2), Uniform(2, 2), TRUE, overwrite, NoDist,
                FALSE)>>)

\* a machine whose state 1 has a sampled limit (the machine of
\* tests::framework_machine_sampled_limit) and leaves it, ends or stays
\* on LimitReached
LimitMachine ==
    Machine(100, Frac(1, 1), 0, Frac(0, 1), FALSE,
        <<State([NonPaddingSent |-> ToState1],
                NoDist, NoDist, FALSE, FALSE, NoDist, FALSE),
          State([PaddingSent |-> ToState1,
                 LimitReached |-> <<Quarter, 0, 0, Quarter>>],
                Uniform(1, 1), NoDist, FALSE, FALSE, Uniform(1, 2),
                FALSE)>>)

\* a machine with probabilistic transitions to both states, to STATECANCEL
\* and to STATEEND; both states have a limit, state 1 blocks and overwrites
RandomMachine ==
    Machine(1, Frac(1, 2), 0, Frac(1, 2), TRUE,
        <<State([PaddingRecv |-> <<0, Quarter, Quarter, 0>>,
                 NonPaddingSent |-> <<Quarter, 0, 0, 0>>],
                Uniform(1, 1), Uniform(1, 1), FALSE, FALSE, Uniform(0, 1),
                TRUE),
          State([PaddingRecv |-> <<Quarter, 0, 0, Quarter>>,
                 BlockingBegin |-> <<0, Quarter, 0, 0>>],
                Uniform(1, 1), Uniform(1, 1), TRUE, TRUE, Uniform(0, 1),
                FALSE)>>)

\* the arguments of Framework::new, and the caller's workload: the events
\* it triggers alone, the longer batches it triggers, and the steps its
\* clock advances by between calls
Setup(machines, max_padding_frac, max_blocking_frac, events, batches, steps) ==
    [machines |-> Vec(machines), max_padding_frac |-> max_padding_frac,
     max_blocking_frac |-> max_blocking_frac, events |-> events,
     batches |-> batches, steps |-> steps]

PaddingEvents ==
    {NonPaddingRecv(0), NonPaddingSent(1), NonPaddingSent(2)}

BlockingEvents(ids) ==
    {NonPaddingRecv(0), BlockingEnd} \cup {BlockingBegin(m) : m \in ids}

SetupNoMachines ==
    Setup(<<>>, Frac(0, 1), Frac(0, 1),
          {NonPaddingRecv(0), NonPaddingSent(2), PaddingRecv(0), BlockingEnd,
           UpdateMTU(1)},
          {<<NonPaddingSent(2), BlockingEnd>>,
           <<UpdateMTU(1), NonPaddingSent(2)>>}, {0, 1})

\* tests::machine_max_padding_frac
SetupMachinePadding ==
    Setup(<<PaddingMachine(2, Frac(1, 2), NoDist, FALSE)>>,
          Frac(0, 1), Frac(0, 1),
          PaddingEvents \cup {PaddingSent(2, 0)},
          {<<PaddingSent(2, 0), NonPaddingSent(1)>>,
           <<NonPaddingSent(2), PaddingSent(2, 0)>>}, {0})

\* tests::framework_max_padding_frac, the second machine without a budget
SetupFrameworkPadding ==
    Setup(<<PaddingMachine(2, Frac(0, 1), NoDist, FALSE),
            PaddingMachine(0, Frac(0, 1), NoDist, FALSE)>>,
          Frac(1, 2), Frac(0, 1),
          PaddingEvents \cup {PaddingSent(2, 0), PaddingSent(2, 1)},
          {<<PaddingSent(2, 0), PaddingSent(2, 1)>>,
           <<NonPaddingSent(2), NonPaddingRecv(0)>>}, {0})

\* both padding caps set, one machine without a budget, one with a limit
SetupBothPadding ==
    Setup(<<PaddingMachine(0, Frac(1, 2), NoDist, FALSE),
            PaddingMachine(2, Frac(0, 1), Uniform(1, 2), TRUE)>>,
          Frac(1, 2), Frac(0, 1),
          PaddingEvents \cup {PaddingSent(2, 0), PaddingSent(2, 1),
                              LimitReached(1)},
          {<<PaddingSent(2, 1), NonPaddingSent(1)>>,
           <<NonPaddingSent(1), NonPaddingSent(1)>>}, {0})

\* tests::machine_max_blocking_frac
SetupMachineBlocking ==
    Setup(<<BlockingMachine(1, Frac(1, 2), FALSE)>>,
          Frac(0, 1), Frac(0, 1),
          BlockingEvents({0}),
          {<<NonPaddingRecv(0), BlockingBegin(0)>>,
           <<BlockingEnd, NonPaddingRecv(0)>>}, {0, 1})

\* both blocking caps set
SetupBothBlocking ==
    Setup(<<BlockingMachine(1, Frac(1, 1), FALSE)>>,
          Frac(0, 1), Frac(1, 2),
          BlockingEvents({0}),
          {<<NonPaddingRecv(0), BlockingBegin(0)>>,
           <<BlockingEnd, NonPaddingRecv(0)>>}, {0, 1})

\* tests::framework_max_blocking_frac, with a second machine that
\* overwrites
SetupFrameworkBlocking ==
    Setup(<<BlockingMachine(1, Frac(0, 1), FALSE),
            BlockingMachine(0, Frac(0, 1), TRUE)>>,
          Frac(0, 1), Frac(1, 2),
          BlockingEvents({0}),
          {<<BlockingBegin(1), BlockingEnd>>}, {1})

\* tests::framework_machine_sampled_limit, with a machine that draws its
\* transitions
SetupLimits ==
    Setup(<<LimitMachine, RandomMachine>>, Frac(0, 1), Frac(0, 1),
          {NonPaddingSent(2), NonPaddingRecv(1), PaddingRecv(0),
           PaddingSent(2, 0), PaddingSent(2, 1), BlockingBegin(1),
           BlockingEnd, LimitReached(0)},
          {<<NonPaddingSent(2), PaddingSent(2, 0)>>,
           <<PaddingRecv(0), BlockingBegin(1)>>,
           <<PaddingRecv(0), PaddingRecv(0)>>}, {0})

\* a machine without caps and budgets: state 1 blocks (the machine of
\* tests::blocking_machine), state 2 pads
NoCapsMachine ==
    Machine(0, Frac(0, 1), 0, Frac(0, 1), TRUE,
        <<State([NonPaddingRecv |-> <<0, One, 0, 0, 0>>],
                NoDist, NoDist, FALSE, FALSE, NoDist, FALSE),
          State([BlockingBegin |-> <<0, One, 0, 0, 0>>,
                 BlockingEnd |-> <<0, One, 0, 0, 0>>,
                 PaddingSent |-> <<0, 0, One, 0, 0>>],
                Uniform(1, 1), Uniform(1, 1), TRUE, FALSE, NoDist, FALSE),
          State([PaddingSent |-> <<0, 0, One, 0, 0>>],
                Uniform(1, 1), NoDist, FALSE, FALSE, NoDist, FALSE)>>)

\* no cap and no budget at all
SetupNoCaps ==
    Setup(<<NoCapsMachine>>, Frac(0, 1), Frac(0, 1),
          {NonPaddingRecv(0), PaddingSent(2, 0), BlockingBegin(0)},
          {}, {0, 1})

Setups ==
    {SetupNoMachines, SetupMachinePadding, SetupFrameworkPadding,
     SetupBothPadding, SetupMachineBlocking, SetupBothBlocking,
     SetupFrameworkBlocking, SetupLimits, SetupNoCaps}

\* the arguments of Framework::new that can fail it
NewArgs(machines, max_padding_frac, max_blocking_frac) ==
    [machines |-> machines, max_padding_frac |-> max_padding_frac,
     max_blocking_frac |-> max_blocking_frac]

\* what a call returned, Ok or Err: of Framework::new on args ("new"), of
\* validate on the machine args.machines[mi] ("validate"); "none" before
\* the call
Returned(op, mi, ok) == [op |-> op, mi |-> mi, ok |-> ok]

\* Framework::new, for arguments it accepts
FrameworkNew(machines, max_padding_frac, max_blocking_frac, mtu, current_time) ==
    [actions |-> [mi \in DOMAIN machines |-> None],
     current_time |-> current_time,
     machines |-> machines,
     runtime |-> [mi \in DOMAIN machines |->
                     [current_state |-> 0,
                      state_limit |-> 0,
                      padding_sent |-> 0,
                      nonpadding_sent |-> 0,
                      blocking_duration |-> 0,
                      machine_start |-> current_time]],
     global_max_padding_frac |-> max_padding_frac,
     global_nonpadding_sent_bytes |-> 0,
     global_paddingsent_bytes |-> 0,
     global_max_blocking_frac |-> max_blocking_frac,
     global_blocking_duration |-> 0,
     global_blocking_started |-> current_time,
     global_blocking_active |-> FALSE,
     global_framework_start |-> current_time,
     mtu |-> mtu]

\* a machine that ignores small packets, with a limit (LimitMachine), next
\* to one that includes them: packets of 1 byte are small
SetupSmallPackets ==
    Setup(<<LimitMachine, PaddingMachine(2, Frac(0, 1), Uniform(1, 1), TRUE)>>,
          Frac(0, 1), Frac(0, 1),
          {NonPaddingSent(1), NonPaddingSent(2), PaddingSent(1, 0),
           PaddingSent(1, 1), NonPaddingRecv(1)},
          {<<NonPaddingSent(2), PaddingSent(1, 0)>>}, {0})

\* two blocking machines with a cap and no budget, the second of which
\* overwrites, called from the instant of construction on
SetupBlockingAtStart ==
    Setup(<<BlockingMachine(0, Frac(1, 2), FALSE),
            BlockingMachine(0, Frac(1, 2), TRUE)>>,
          Frac(0, 1), Frac(0, 1),
          BlockingEvents({0}), {}, {0, 1})

\* a machine that draws its transitions, STATECANCEL among them, alone
SetupCancel ==
    Setup(<<RandomMachine>>, Frac(0, 1), Frac(0, 1),
          {PaddingRecv(0), NonPaddingSent(2), PaddingSent(2, 0),
           BlockingBegin(0)},
          {<<PaddingRecv(0), PaddingSent(2, 0)>>,
           <<PaddingRecv(0), PaddingRecv(0)>>}, {0})

\* the setups of SpecSteps
StepSetups ==
    {SetupSmallPackets, SetupBlockingAtStart, SetupFrameworkBlocking,
     SetupCancel}

\* the setups of every specification of the framework
AllSetups == Setups \cup StepSetups

\* the setup a framework was made from
SetupOf(f) ==
    CHOOSE s \in AllSetups :
        /\ s.machines = f.machines
        /\ s.max_padding_frac = f.global_max_padding_frac
        /\ s.max_blocking_frac = f.global_max_blocking_frac

\* the batches of events the caller of f hands to trigger_events
Batches(f) ==
    LET s == SetupOf(f)
    IN {<<>>} \cup {<<e>> : e \in s.events} \cup s.batches

\* the bytes an event reports as sent
BytesSent(e) ==
    IF e.type \in {"NonPaddingSent", "PaddingSent"} THEN e.bytes_sent ELSE 0

RECURSIVE BatchBytesSent(_)
BatchBytesSent(events) ==
    IF events = <<>> THEN 0
    ELSE BytesSent(Head(events)) + BatchBytesSent(Tail(events))

\* the counter of a state without a limit has been decremented
\* MaxDecrements times
WornOut(f) ==
    \E mi \in MachineIds(f) :
        /\ f.runtime[mi].state_limit <= STATELIMITMAX - MaxDecrements
        /\ f.runtime[mi].state_limit > STATELIMITMAX \div 2

\* the calls trigger_events(events, current_time) the caller of f makes
\* next, within the bounds of the model
Calls(f) ==
    IF WornOut(f) THEN {}
    ELSE {c \in [events : Batches(f),
                 current_time : {f.current_time + d :
                                    d \in SetupOf(f).steps}] :
             /\ c.current_time <= MaxTime
             /\ f.global_paddingsent_bytes + f.global_nonpadding_sent_bytes
                    + BatchBytesSent(c.events) <= MaxBytes}

---------------------------------------------------------------------------
(* The queue of the simulator (queue.rs): a SimQueue is an EventQueue per  *)
(* endpoint, an EventQueue is four heaps of SimEvents. A heap is modelled  *)
(* as the sequence of its items from the one BinaryHeap::pop returns       *)
(* first to the one it returns last.                                       *)

\* the kinds of TriggerEvent the queue sees, by rank
EventKinds == <<"TunnelRecv", "NormalSent", "TunnelSent">>

\* event_to_usize: the rank of a kind of event, an injection
EventToUsize(event) ==
    CHOOSE i \in 1 .. Len(EventKinds) : EventKinds[i] = event

\* a SimEvent; the fields the queue reads, and contains_padding
SimEvent(event, time, client, contains_padding, bypass) ==
    [event |-> event, time |-> time, client |-> client,
     contains_padding |-> contains_padding, bypass |-> bypass]

\* Option::<&SimEvent>::None
NoEvent == [event |-> "None"]

\* SimEvent::cmp(a, b) is Greater: a is before b in time, or at the same
\* time with the smaller rank
CmpGreater(a, b) ==
    \/ a.time < b.time
    \/ a.time = b.time /\ EventToUsize(a.event) < EventToUsize(b.event)

\* n > first on Option<&SimEvent>: None is below every Some
OptionGt(n, first) ==
    /\ n # NoEvent
    /\ first = NoEvent \/ CmpGreater(n, first)

\* Instant::duration_since: zero if earlier is later than instant
DurationSince(instant, earlier) ==
    IF instant >= earlier THEN instant - earlier ELSE 0

\* fn before, with ranks compared by <=
BeforeOrEqual(a, b, a_network_delay_sum) ==
    IF a # NoEvent /\ b # NoEvent
    THEN LET a_time == a.time + a_network_delay_sum
             b_time == b.time
         IN \/ a_time < b_time
            \/ /\ a_time = b_time
               /\ EventToUsize(a.event) <= EventToUsize(b.event)
    ELSE a # NoEvent /\ b = NoEvent

\* fn before(a, b, a_network_delay_sum)
Before(a, b, a_network_delay_sum) ==
    IF a # NoEvent /\ b # NoEvent
    THEN LET a_time == a.time + a_network_delay_sum
             b_time == b.time
         IN \/ a_time < b_time
            \/ /\ a_time = b_time
               /\ EventToUsize(a.event) < EventToUsize(b.event)
    ELSE a # NoEvent /\ b = NoEvent

\* heap with item put before its i-th item
InsertAt(heap, i, item) ==
    SubSeq(heap, 1, i - 1) \o <<item>> \o SubSeq(heap, i, Len(heap))

\* BinaryHeap::push: the heaps it can give; items that compare Equal come
\* out in an order the heap chooses
HeapPush(heap, item) ==
    {InsertAt(heap, i, item) : i \in
        {i \in 1 .. Len(heap) + 1 :
            /\ i = 1 \/ ~CmpGreater(item, heap[i - 1])
            /\ i = Len(heap) + 1 \/ ~CmpGreater(heap[i], item)}}

\* BinaryHeap::peek
HeapPeek(heap) == IF heap = <<>> THEN NoEvent ELSE Head(heap)

\* what a pop returns and leaves
Popped(event, rest, abort) ==
    [event |-> event, queue |-> rest, panicked |-> abort]

\* BinaryHeap::pop
HeapPop(heap) ==
    IF heap = <<>> THEN Popped(NoEvent, heap, FALSE)
    ELSE Popped(Head(heap), Tail(heap), FALSE)

\* EventQueue::new
EventQueueNew ==
    [base |-> <<>>, blocking |-> <<>>, bypassable |-> <<>>,
     internal |-> <<>>]

\* the sub-heap of an EventQueue that a Queue value names
SubHeapOf(queue, q) ==
    CASE q = "Base" -> queue.base
      [] q = "Blocking" -> queue.blocking
      [] q = "Bypassable" -> queue.bypassable
      [] OTHER -> queue.internal

\* EventQueue::len
EventQueueLen(q) ==
    Len(q.blocking) + Len(q.bypassable) + Len(q.internal) + Len(q.base)

\* EventQueue::push, without the match on item.bypass
EventQueuePushIgnoringBypass(q, item) ==
    CASE item.event = "TunnelSent" ->
            {[q EXCEPT !.blocking = h] : h \in HeapPush(q.blocking, item)}
      [] item.event = "NormalSent" ->
            {[q EXCEPT !.base = h] : h \in HeapPush(q.base, item)}
      [] OTHER ->
            {[q EXCEPT !.internal = h] : h \in HeapPush(q.internal, item)}

\* EventQueue::push: the queues it can give
EventQueuePush(q, item) ==
    CASE item.event = "TunnelSent" ->
            IF item.bypass
            THEN {[q EXCEPT !.bypassable = h] :
                     h \in HeapPush(q.bypassable, item)}
            ELSE {[q EXCEPT !.blocking = h] :
                     h \in HeapPush(q.blocking, item)}
      [] item.event = "NormalSent" ->
            {[q EXCEPT !.base = h] : h \in HeapPush(q.base, item)}
      [] OTHER ->
            {[q EXCEPT !.internal = h] : h \in HeapPush(q.internal, item)}

\* what a peek returns: (Option<&SimEvent>, Queue, Duration)
Peeked(event, q, duration) ==
    [event |-> event, q |-> q, duration |-> duration]

\* EventQueue::peek
EventQueuePeek(queue, network_delay_sum, current_time) ==
    IF EventQueueLen(queue) = 0 THEN Peeked(NoEvent, "Blocking", 0)
    ELSE LET first0 == HeapPeek(queue.blocking)
             n1 == HeapPeek(queue.bypassable)
             first1 == IF OptionGt(n1, first0) THEN n1 ELSE first0
             q1 == IF OptionGt(n1, first0) THEN "Bypassable" ELSE "Blocking"
             n2 == HeapPeek(queue.internal)
             first2 == IF OptionGt(n2, first1) THEN n2 ELSE first1
             q2 == IF OptionGt(n2, first1) THEN "Internal" ELSE q1
             n == HeapPeek(queue.base)
         IN IF Before(n, first2, network_delay_sum)
            THEN Peeked(n, "Base",
                        DurationSince(n.time + network_delay_sum,
                                      current_time))
            ELSE Peeked(first2, q2,
                        DurationSince(first2.time, current_time))

\* EventQueue::pop, returning every event with its stored time
EventQueuePopStoredTime(queue, q, network_delay_sum) ==
    LET p == HeapPop(SubHeapOf(queue, q))
    IN Popped(p.event,
              CASE q = "Blocking" -> [queue EXCEPT !.blocking = p.queue]
                [] q = "Bypassable" -> [queue EXCEPT !.bypassable = p.queue]
                [] q = "Internal" -> [queue EXCEPT !.internal = p.queue]
                [] q = "Base" -> [queue EXCEPT !.base = p.queue],
              FALSE)

\* EventQueue::pop
EventQueuePop(queue, q, network_delay_sum) ==
    CASE q = "Blocking" ->
            LET p == HeapPop(queue.blocking)
            IN Popped(p.event, [queue EXCEPT !.blocking = p.queue], FALSE)
      [] q = "Bypassable" ->
            LET p == HeapPop(queue.bypassable)
            IN Popped(p.event, [queue EXCEPT !.bypassable = p.queue], FALSE)
      [] q = "Internal" ->
            LET p == HeapPop(queue.internal)
            IN Popped(p.event, [queue EXCEPT !.internal = p.queue], FALSE)
      [] q = "Base" ->
            LET p == HeapPop(queue.base)
            IN IF network_delay_sum = 0
               THEN Popped(p.event, [queue EXCEPT !.base = p.queue], FALSE)
               ELSE IF p.event = NoEvent
                    THEN Popped(NoEvent, queue, TRUE)
                    ELSE Popped([p.event EXCEPT
                                    !.time = @ + network_delay_sum],
                                [queue EXCEPT !.base = p.queue], FALSE)

\* EventQueue::peek_blocking
EventQueuePeekBlocking(queue) == HeapPeek(queue.blocking)

\* EventQueue::peek_bypassable
EventQueuePeekBypassable(queue) == HeapPeek(queue.bypassable)

\* EventQueue::peek_non_blocking
EventQueuePeekNonBlocking(queue) ==
    LET i == HeapPeek(queue.internal)
        b == HeapPeek(queue.base)
    IN IF OptionGt(i, b) THEN Peeked(i, "Internal", 0)
       ELSE Peeked(b, "Base", 0)

\* fn peek_blocking, with the head of blocking first whenever there is one
PeekBlockingFirst(queue, bypassable) ==
    IF bypassable \/ EventQueuePeekBlocking(queue) # NoEvent
    THEN Peeked(EventQueuePeekBlocking(queue), "Blocking", 0)
    ELSE Peeked(EventQueuePeekBypassable(queue), "Bypassable", 0)

\* fn peek_blocking
PeekBlocking(queue, bypassable) ==
    IF bypassable
    THEN Peeked(EventQueuePeekBlocking(queue), "Blocking", 0)
    ELSE LET b == EventQueuePeekBlocking(queue)
             bb == EventQueuePeekBypassable(queue)
         IN IF OptionGt(b, bb) THEN Peeked(b, "Blocking", 0)
            ELSE Peeked(bb, "Bypassable", 0)

\* fn peek_non_blocking, without the bypassable sub-heap
PeekNonBlockingWithoutBypassable(queue, bypassable) ==
    EventQueuePeekNonBlocking(queue)

\* fn peek_non_blocking
PeekNonBlocking(queue, bypassable) ==
    IF bypassable
    THEN LET bb == EventQueuePeekBypassable(queue)
             n == EventQueuePeekNonBlocking(queue)
         IN IF OptionGt(bb, n.event) THEN Peeked(bb, "Bypassable", 0)
            ELSE n
    ELSE EventQueuePeekNonBlocking(queue)

\* SimQueue::new
SimQueueNew == [client |-> EventQueueNew, server |-> EventQueueNew]

\* SimQueue::len
SimQueueLen(sq) == EventQueueLen(sq.client) + EventQueueLen(sq.server)

\* SimQueue::push_sim: the queues it can give
PushSim(sq, item) ==
    IF item.client
    THEN {[sq EXCEPT !.client = q] : q \in EventQueuePush(sq.client, item)}
    ELSE {[sq EXCEPT !.server = q] : q \in EventQueuePush(sq.server, item)}

\* SimQueue::push: the queues it can give
Push(sq, event, is_client, contains_padding, time) ==
    PushSim(sq, SimEvent(event, time, is_client, contains_padding, FALSE))

\* SimQueue::peek that returns the client's event whenever it has one
SimQueuePeekClientFirst(sq, network_delay_sum, current_time) ==
    IF SimQueueLen(sq) = 0 THEN Peeked(NoEvent, "Blocking", 0)
    ELSE LET c == EventQueuePeek(sq.client, network_delay_sum, current_time)
             s == EventQueuePeek(sq.server, network_delay_sum, current_time)
         IN IF c.event # NoEvent THEN c ELSE s

\* SimQueue::peek
SimQueuePeek(sq, network_delay_sum, current_time) ==
    IF SimQueueLen(sq) = 0 THEN Peeked(NoEvent, "Blocking", 0)
    ELSE LET c == EventQueuePeek(sq.client, network_delay_sum, current_time)
             s == EventQueuePeek(sq.server, network_delay_sum, current_time)
         IN CASE c.event = NoEvent /\ s.event # NoEvent -> s
              [] c.event # NoEvent /\ s.event = NoEvent -> c
              [] c.event = NoEvent /\ s.event = NoEvent ->
                    Peeked(NoEvent, "Blocking", 0)
              [] OTHER ->
                    IF \/ c.duration < s.duration
                       \/ /\ c.duration = s.duration
                          /\ EventToUsize(c.event.event)
                                 < EventToUsize(s.event.event)
                    THEN c
                    ELSE s

\* the EventQueue of an endpoint
Endpoint(sq, is_client) == IF is_client THEN sq.client ELSE sq.server

\* the SimQueue with the EventQueue of an endpoint replaced
WithEndpoint(sq, is_client, q) ==
    IF is_client THEN [sq EXCEPT !.client = q] ELSE [sq EXCEPT !.server = q]

\* SimQueue::pop, taking the other endpoint
SimQueuePopOtherEndpoint(sq, q, is_client, network_delay_sum) ==
    LET p == EventQueuePop(Endpoint(sq, ~is_client), q, network_delay_sum)
    IN Popped(p.event, WithEndpoint(sq, ~is_client, p.queue), p.panicked)

\* SimQueue::pop
SimQueuePop(sq, q, is_client, network_delay_sum) ==
    LET p == EventQueuePop(Endpoint(sq, is_client), q, network_delay_sum)
    IN Popped(p.event, WithEndpoint(sq, is_client, p.queue), p.panicked)

\* SimQueue::peek_blocking
SimQueuePeekBlocking(sq, bypassable, is_client) ==
    PeekBlocking(Endpoint(sq, is_client), bypassable)

\* SimQueue::pop_blocking, popping the sub-heap q names in either case
SimQueuePopBlockingByTag(sq, q, bypassable, is_client, network_delay_sum) ==
    SimQueuePop(sq, q, is_client, network_delay_sum)

\* SimQueue::pop_blocking
SimQueuePopBlocking(sq, q, bypassable, is_client, network_delay_sum) ==
    IF bypassable
    THEN LET p == HeapPop(Endpoint(sq, is_client).blocking)
         IN Popped(p.event,
                   WithEndpoint(sq, is_client,
                       [Endpoint(sq, is_client) EXCEPT
                           !.blocking = p.queue]),
                   FALSE)
    ELSE SimQueuePop(sq, q, is_client, network_delay_sum)

\* SimQueue::peek_non_blocking
SimQueuePeekNonBlocking(sq, bypassable, is_client) ==
    PeekNonBlocking(Endpoint(sq, is_client), bypassable)

---------------------------------------------------------------------------
(* The state machine: a caller that triggers any events of its workload *)

Init ==
    /\ \E s \in Setups :
          /\ args = NewArgs(s.machines, s.max_padding_frac,
                            s.max_blocking_frac)
          /\ framework = FrameworkNew(s.machines, s.max_padding_frac,
                                      s.max_blocking_frac, InitialMTU, 0)
    /\ result = Returned("new", 0, TRUE)
    /\ emitted = <<>>
    /\ panicked = FALSE
    /\ timers = [mi \in MachineIds(framework) |-> None]
    /\ sim_queue = SimQueueNew

\* one call f.trigger_events(events, current_time); this caller keeps no
\* timers
TriggerEvents(events, current_time) ==
    /\ ~panicked
    /\ \E x \in TriggerEventsOutcomes(framework, events, current_time) :
          /\ framework' = x.f
          /\ panicked' = x.panicked
          /\ emitted' = IF x.panicked THEN <<>>
                        ELSE FilterActions(x.f.actions, 0)
    /\ UNCHANGED <<timers, args, result, sim_queue>>

Next ==
    \E c \in Calls(framework) : TriggerEvents(c.events, c.current_time)

Spec == Init /\ [][Next]_vars

---------------------------------------------------------------------------
(* The state machine: the same caller, over the setups in which limits    *)
(* are reached, small packets arrive, transitions cancel and blocks       *)
(* overwrite.                                                             *)

InitSteps ==
    /\ \E s \in StepSetups :
          /\ args = NewArgs(s.machines, s.max_padding_frac,
                            s.max_blocking_frac)
          /\ framework = FrameworkNew(s.machines, s.max_padding_frac,
                                      s.max_blocking_frac, InitialMTU, 0)
    /\ result = Returned("new", 0, TRUE)
    /\ emitted = <<>>
    /\ panicked = FALSE
    /\ timers = [mi \in MachineIds(framework) |-> None]
    /\ sim_queue = SimQueueNew

SpecSteps == InitSteps /\ [][Next]_vars

---------------------------------------------------------------------------
(* The state machine: an embedder that follows the integration contract   *)
(* (framework.rs, the example of the module documentation): it keeps one  *)
(* timer per machine, and reports padding only when the timer of an       *)
(* InjectPadding action expires, with the size of that action.  Its       *)
(* machines only pad, and its clock does not matter to them.              *)

\* a machine with a padding cap and no budget, alone
SetupNoBudget ==
    Setup(<<PaddingMachine(0, Frac(1, 2), NoDist, FALSE)>>,
          Frac(0, 1), Frac(0, 1), {}, {}, {0})

EmbedderSetups == {SetupNoBudget, SetupBothPadding}

\* the timers once the embedder has taken the actions of a call: an action
\* replaces the timer of its machine, Cancel removes it
SetTimers(old, actions) ==
    [mi \in DOMAIN old |->
        IF actions[mi] = None THEN old[mi]
        ELSE IF actions[mi].kind = "Cancel" THEN None
        ELSE actions[mi]]

InitEmbedder ==
    /\ \E s \in EmbedderSetups :
          /\ args = NewArgs(s.machines, s.max_padding_frac,
                            s.max_blocking_frac)
          /\ framework = FrameworkNew(s.machines, s.max_padding_frac,
                                      s.max_blocking_frac, InitialMTU, 0)
    /\ result = Returned("new", 0, TRUE)
    /\ emitted = <<>>
    /\ panicked = FALSE
    /\ timers = [mi \in MachineIds(framework) |-> None]
    /\ sim_queue = SimQueueNew

\* the loop iteration of the embedder: trigger the events, then take the
\* actions; expired are the timers that have just fired
Iteration(events, expired) ==
    /\ ~panicked
    /\ framework.global_paddingsent_bytes
           + framework.global_nonpadding_sent_bytes
           + BatchBytesSent(events) <= MaxBytes
    /\ \E x \in TriggerEventsOutcomes(framework, events,
                                      framework.current_time) :
          /\ framework' = x.f
          /\ panicked' = x.panicked
          /\ emitted' = IF x.panicked THEN <<>>
                        ELSE FilterActions(x.f.actions, 0)
          /\ timers' = IF x.panicked THEN timers
                       ELSE SetTimers(
                                [mi \in DOMAIN timers |->
                                    IF mi \in expired THEN None
                                    ELSE timers[mi]],
                                x.f.actions)
    /\ UNCHANGED <<args, result, sim_queue>>

\* the application sends n bytes
TrafficSent(n) == Iteration(<<NonPaddingSent(n)>>, {})

\* the timer of machine mi expires: "1. Send size padding.  2. Add
\* TriggerEvent::PaddingSent{ bytes_sent: size, machine: machine }"
PaddingTimerExpires(mi) ==
    /\ timers[mi].kind = "InjectPadding"
    /\ Iteration(<<PaddingSent(timers[mi].size, mi)>>, {mi})

NextEmbedder ==
    \/ \E n \in 1 .. InitialMTU : TrafficSent(n)
    \/ \E mi \in MachineIds(framework) : PaddingTimerExpires(mi)

SpecEmbedder == InitEmbedder /\ [][NextEmbedder]_vars

---------------------------------------------------------------------------
(* Construction and validation: Machine::validate (machine.rs),            *)
(* State::validate (state.rs), Action::validate (action.rs) and the        *)
(* checks of Framework::new, applied to arguments that may be invalid.     *)
(* A float is a fraction [num, den] with den > 0, or NaN.                  *)

\* the most states a machine may have (constants.rs)
STATEMAX == 3

NaN == [num |-> 0, den |-> 0]

IsNaN(x) == x.den = 0

\* x < y, x > y and x <= y on floats: false when either is NaN
F64Lt(x, y) == ~IsNaN(x) /\ ~IsNaN(y) /\ x.num * y.den < y.num * x.den

F64Gt(x, y) == F64Lt(y, x)

F64Le(x, y) == ~IsNaN(x) /\ ~IsNaN(y) /\ x.num * y.den <= y.num * x.den

\* x + y on floats, without rounding; NaN if either is NaN
F64Add(x, y) ==
    [num |-> x.num * y.den + y.num * x.den, den |-> x.den * y.den]

\* Trans(state, probability) of state.rs
Trans(state, probability) == [state |-> state, probability |-> probability]

\* Dist::validate: an inverted range is rejected
DistValidate(d) == d.dist = "None" \/ d.param1 <= d.param2

\* an Action of a state with its distributions; limit NoDist is None
ActionDesc(kind, timeout, duration, limit) ==
    [kind |-> kind, timeout |-> timeout, duration |-> duration,
     limit |-> limit]

\* Action::validate
ActionValidate(a) ==
    CASE a.kind = "SendPadding" ->
            DistValidate(a.timeout) /\ DistValidate(a.limit)
      [] a.kind = "BlockOutgoing" ->
            /\ DistValidate(a.timeout)
            /\ DistValidate(a.duration)
            /\ DistValidate(a.limit)
      [] a.kind = "UpdateTimer" ->
            DistValidate(a.duration) /\ DistValidate(a.limit)
      [] OTHER -> TRUE

\* CounterUpdate::validate: the distribution of the value validates
CounterValidate(c) == DistValidate(c)

\* a State as validate reads it: the transition vectors of the events that
\* have one, the action and the counter update (NoAction, NoDist: None)
StateDesc(transitions, action, counter) ==
    [transitions |-> transitions, action |-> action, counter |-> counter]

NoAction == ActionDesc("None", NoDist, NoDist, NoDist)

\* the sum of the probabilities of the first i transitions of a vector
RECURSIVE SumOfProbabilities(_, _)
SumOfProbabilities(vector, i) ==
    IF i = 0 THEN Frac(0, 1)
    ELSE F64Add(SumOfProbabilities(vector, i - 1), vector[i].probability)

\* State::validate(num_states) returns Ok
StateValidate(state, num_states) ==
    /\ \A event \in DOMAIN state.transitions :
          LET vector == state.transitions[event]
              sum == SumOfProbabilities(vector, Len(vector))
          IN /\ \A i \in 1 .. Len(vector) :
                   LET t == vector[i]
                   IN /\ ~(/\ t.state >= num_states
                           /\ t.state # STATECANCEL
                           /\ t.state # STATEEND)
                      /\ \A j \in 1 .. i - 1 : vector[j].state # t.state
                      /\ ~(\/ F64Le(t.probability, Frac(0, 1))
                           \/ F64Gt(t.probability, Frac(1, 1)))
             /\ ~(F64Le(sum, Frac(0, 1)) \/ F64Gt(sum, Frac(1, 1)))
    /\ state.action.kind # "None" => ActionValidate(state.action)
    /\ state.counter.dist # "None" => CounterValidate(state.counter)

\* a Machine as validate reads it
MachineDesc(max_padding_frac, max_blocking_frac, states) ==
    [max_padding_frac |-> max_padding_frac,
     max_blocking_frac |-> max_blocking_frac, states |-> states]

\* Machine::validate returns Ok
MachineValidate(machine) ==
    /\ ~(\/ F64Lt(machine.max_padding_frac, Frac(0, 1))
         \/ F64Gt(machine.max_padding_frac, Frac(1, 1)))
    /\ ~(\/ F64Lt(machine.max_blocking_frac, Frac(0, 1))
         \/ F64Gt(machine.max_blocking_frac, Frac(1, 1)))
    /\ Len(machine.states) # 0
    /\ ~(Len(machine.states) > STATEMAX)
    /\ \A i \in 1 .. Len(machine.states) :
          StateValidate(machine.states[i], Len(machine.states))

\* Framework::new returns Ok
FrameworkNewOk(a) ==
    /\ \A i \in 1 .. Len(a.machines) : MachineValidate(a.machines[i])
    /\ ~(\/ F64Lt(a.max_padding_frac, Frac(0, 1))
         \/ F64Gt(a.max_padding_frac, Frac(1, 1)))
    /\ ~(\/ F64Lt(a.max_blocking_frac, Frac(0, 1))
         \/ F64Gt(a.max_blocking_frac, Frac(1, 1)))

---------------------------------------------------------------------------
(* The state machine: a caller that validates machines and constructs a    *)
(* framework from arguments of any kind.                                   *)

\* floats below, at, inside, at and above the bounds of [0, 1], and NaN
Floats ==
    {Frac(0 - 1, 2), Frac(0, 1), Frac(1, 2), Frac(1, 1), Frac(3, 2), NaN}

\* a state with one transition vector, on NonPaddingSent
OneVector(vector, action, counter) ==
    StateDesc([event \in {"NonPaddingSent"} |-> vector], action, counter)

\* a two-state machine that validates: both pseudo-states as targets, a
\* sum below one and a sum of one, every kind of action
GoodStates ==
    <<StateDesc([event \in {"NonPaddingSent", "PaddingRecv"} |->
                    IF event = "NonPaddingSent"
                    THEN <<Trans(1, Frac(1, 2)), Trans(STATEEND, Frac(1, 2))>>
                    ELSE <<Trans(STATECANCEL, Frac(1, ProbDenom))>>],
                ActionDesc("SendPadding", Uniform(0, 1), NoDist,
                           Uniform(1, 1)),
                Uniform(1, 2)),
      OneVector(<<Trans(0, Frac(1, 1))>>,
                ActionDesc("BlockOutgoing", Uniform(0, 0), Uniform(1, 2),
                           NoDist),
                NoDist)>>

\* machines of n states without transitions
Idle(n) == [i \in 1 .. n |-> StateDesc(<<>>, NoAction, NoDist)]

\* one-state machines with the vector, the action and the counter update
Single(vector, action, counter) ==
    <<OneVector(vector, action, counter)>>

\* vectors of transitions: targets in and out of range, repeated targets,
\* probabilities and sums in and out of (0, 1], NaN
Vectors ==
    {<<>>}
    \cup {<<Trans(t, p)>> : t \in {0, 1, STATECANCEL, STATEEND, STATENOP},
                            p \in Floats}
    \cup {<<Trans(0, Frac(1, 2)), Trans(t, p)>> :
             t \in {0, STATEEND},
             p \in {Frac(1, ProbDenom), Frac(1, 2), Frac(3, ProbDenom), NaN}}

\* distributions that validate and one that does not
Dists == {NoDist, Uniform(0, 1), Uniform(1, 0)}

Actions ==
    {NoAction, ActionDesc("Cancel", NoDist, NoDist, NoDist)}
    \cup {ActionDesc(kind, Uniform(0, 1), Uniform(0, 1), d) :
             kind \in {"SendPadding", "BlockOutgoing", "UpdateTimer"},
             d \in Dists}
    \cup {ActionDesc(kind, d, Uniform(0, 1), NoDist) :
             kind \in {"SendPadding", "BlockOutgoing", "UpdateTimer"},
             d \in Dists}
    \cup {ActionDesc(kind, Uniform(0, 1), d, NoDist) :
             kind \in {"SendPadding", "BlockOutgoing", "UpdateTimer"},
             d \in Dists}

\* the machines handed to validate
CandidateMachines ==
    {MachineDesc(p, b, GoodStates) : p \in Floats, b \in Floats}
    \cup {MachineDesc(Frac(1, 2), Frac(0, 1), Idle(n)) :
             n \in 0 .. STATEMAX + 1}
    \cup {MachineDesc(Frac(0, 1), Frac(1, 1), Single(v, NoAction, NoDist)) :
             v \in Vectors}
    \cup {MachineDesc(Frac(0, 1), Frac(0, 1),
                      Single(<<Trans(0, Frac(1, 1))>>, a, NoDist)) :
             a \in Actions}
    \cup {MachineDesc(Frac(0, 1), Frac(0, 1),
                      Single(<<Trans(0, Frac(1, 1))>>, NoAction, d)) :
             d \in Dists}

GoodMachine == MachineDesc(Frac(1, 2), Frac(1, 1), GoodStates)

\* the arguments handed to Framework::new: no machine, any one machine,
\* a good machine before or after any machine; any fractions with a good
\* machine or none
CandidateArgs ==
    {NewArgs(<<>>, p, b) : p \in Floats, b \in Floats}
    \cup {NewArgs(<<GoodMachine>>, p, b) : p \in Floats, b \in Floats}
    \cup {NewArgs(<<m>>, Frac(1, 1), Frac(0, 1)) : m \in CandidateMachines}
    \cup {NewArgs(<<GoodMachine, m>>, Frac(0, 1), Frac(1, 2)) :
             m \in CandidateMachines}
    \cup {NewArgs(<<m, GoodMachine>>, Frac(1, 2), Frac(1, 1)) :
             m \in CandidateMachines}

\* no Framework value
NoFramework == [machines |-> <<>>, none |-> TRUE]

InitNew ==
    /\ args \in CandidateArgs
    /\ result = Returned("none", 0, FALSE)
    /\ framework = NoFramework
    /\ emitted = <<>>
    /\ panicked = FALSE
    /\ timers = <<>>
    /\ sim_queue = SimQueueNew

\* one call Framework::new(machines, max_padding_frac, max_blocking_frac,
\* mtu, current_time)
New ==
    /\ result.op = "none"
    /\ LET ok == FrameworkNewOk(args)
       IN /\ result' = Returned("new", 0, ok)
          /\ framework' =
                IF ok
                THEN FrameworkNew(args.machines, args.max_padding_frac,
                                  args.max_blocking_frac, InitialMTU, 0)
                ELSE framework
    /\ UNCHANGED <<emitted, panicked, timers, args, sim_queue>>

\* one call machines[mi].validate()
Validate(mi) ==
    /\ result.op = "none"
    /\ result' = Returned("validate", mi, MachineValidate(args.machines[mi]))
    /\ UNCHANGED <<framework, emitted, panicked, timers, args, sim_queue>>

NextNew ==
    \/ New
    \/ \E mi \in DOMAIN args.machines : Validate(mi)

SpecNew == InitNew /\ [][NextNew]_vars

---------------------------------------------------------------------------
(* The state machine: a simulator that pushes events to its queue and pops *)
(* the events it peeked.                                                   *)

\* the times of the events pushed
Instants == 0 .. 1

\* the values of network_delay_sum
Delays == 0 .. 2

\* the values of current_time: before, among and after the times of the
\* events
CurrentTimes == {0, 1, 4}

InitQueue ==
    /\ sim_queue = SimQueueNew
    /\ result = Returned("new", 0, TRUE)
    /\ args = <<>>
    /\ framework = NoFramework
    /\ emitted = <<>>
    /\ panicked = FALSE
    /\ timers = <<>>

\* one call sq.push(event, is_client, contains_padding, time, delay)
SimPush(event, is_client, contains_padding, time) ==
    /\ ~panicked
    /\ SimQueueLen(sim_queue) < MaxQueueLen
    /\ sim_queue' \in Push(sim_queue, event, is_client, contains_padding,
                           time)
    /\ result' = Returned("push", 0, TRUE)
    /\ emitted' = <<>>
    /\ UNCHANGED <<framework, panicked, timers, args>>

\* one call sq.push_sim(item)
SimPushSim(item) ==
    /\ ~panicked
    /\ SimQueueLen(sim_queue) < MaxQueueLen
    /\ sim_queue' \in PushSim(sim_queue, item)
    /\ result' = Returned("push_sim", 0, TRUE)
    /\ emitted' = <<>>
    /\ UNCHANGED <<framework, panicked, timers, args>>

\* the queue, the event returned and the abort of a pop become the state
Pops(op, p) ==
    /\ sim_queue' = p.queue
    /\ panicked' = p.panicked
    /\ emitted' = IF p.event = NoEvent THEN <<>> ELSE <<p.event>>
    /\ result' = Returned(op, 0, p.event # NoEvent)
    /\ UNCHANGED <<framework, timers, args>>

\* sq.peek(network_delay_sum, current_time), then sq.pop of the queue and
\* the endpoint of the event it returned
SimPeekPop(network_delay_sum, current_time) ==
    /\ ~panicked
    /\ LET p == SimQueuePeek(sim_queue, network_delay_sum, current_time)
       IN /\ p.event # NoEvent
          /\ Pops("pop", SimQueuePop(sim_queue, p.q, p.event.client,
                                     network_delay_sum))

\* sq.peek_blocking(bypassable, is_client), then sq.pop_blocking of the
\* queue it returned
SimPopBlocking(bypassable, is_client, network_delay_sum) ==
    /\ ~panicked
    /\ LET p == SimQueuePeekBlocking(sim_queue, bypassable, is_client)
       IN /\ p.event # NoEvent
          /\ Pops("pop_blocking",
                  SimQueuePopBlocking(sim_queue, p.q, bypassable, is_client,
                                      network_delay_sum))

\* sq.peek_non_blocking(bypassable, is_client), then sq.pop of the queue
\* it returned
SimPopNonBlocking(bypassable, is_client, network_delay_sum) ==
    /\ ~panicked
    /\ LET p == SimQueuePeekNonBlocking(sim_queue, bypassable, is_client)
       IN /\ p.event # NoEvent
          /\ Pops("pop_non_blocking",
                  SimQueuePop(sim_queue, p.q, is_client, network_delay_sum))

NextQueue ==
    \/ \E k \in 1 .. Len(EventKinds), is_client \in BOOLEAN,
          time \in Instants :
          SimPush(EventKinds[k], is_client, FALSE, time)
    \/ \E is_client \in BOOLEAN, time \in Instants :
          SimPushSim(SimEvent("TunnelSent", time, is_client, TRUE, TRUE))
    \/ \E network_delay_sum \in Delays, current_time \in CurrentTimes :
          SimPeekPop(network_delay_sum, current_time)
    \/ \E bypassable \in BOOLEAN, is_client \in BOOLEAN :
          SimPopBlocking(bypassable, is_client, 0)
    \/ \E bypassable \in BOOLEAN, is_client \in BOOLEAN,
          network_delay_sum \in Delays :
          SimPopNonBlocking(bypassable, is_client, network_delay_sum)

SpecQueue == InitQueue /\ [][NextQueue]_vars

---------------------------------------------------------------------------
(* The properties.  What happens inside a call is read off the histories   *)
(* of the calls that a reachable state of Spec allows next.                *)

\* o ranges over the ways the next call of Spec can go: o.events are its
\* events and o.x is the context it ends in
EveryOutcome(P(_)) ==
    ~panicked =>
        \A c \in Calls(framework) :
            \A x \in TriggerEventsOutcomes(framework, c.events,
                                           c.current_time) :
                P([events |-> c.events, x |-> x])

SomeOutcome(P(_)) ==
    /\ ~panicked
    /\ \E c \in Calls(framework) :
          \E x \in TriggerEventsOutcomes(framework, c.events,
                                         c.current_time) :
              P([events |-> c.events, x |-> x])

\* the positions of a history
Steps(o) == 1 .. Len(o.x.trace)

\* r records a transition into a state of the machine, for which the
\* limits were checked
Evaluated(r) == r.op = "transition" /\ r.outcome \in {"same", "changed"}

\* the machine and the state the limits of r were checked for
MachineOf(r) == framework.machines[r.mi]

StateOf(r) == framework.machines[r.mi].states[r.rt.current_state]

\* r records a limit check for a padding action
PaddingChecked(r) == Evaluated(r) /\ ~StateOf(r).action_is_block

\* r records a limit check for a block that does not overwrite
BlockChecked(r) ==
    /\ Evaluated(r)
    /\ StateOf(r).action_is_block
    /\ ~StateOf(r).block_overwrite

\* the fraction a / b is defined and at least x, or below x
RatioGe(a, b, x) == b > 0 /\ a * x.den >= x.num * b

RatioLt(a, b, x) == b > 0 /\ a * x.den < x.num * b

\* C1: a call emits at most one action per machine: no more actions than
\* machines, no two with the same machine id, and each in the slot of the
\* machine it names
C1_AtMostOneActionPerMachine ==
    /\ Len(emitted) <= NumMachines(framework)
    /\ \A i, j \in 1 .. Len(emitted) :
          i # j => emitted[i].machine # emitted[j].machine
    /\ \A i \in 1 .. Len(emitted) :
          /\ emitted[i].machine \in MachineIds(framework)
          /\ framework.actions[emitted[i].machine] = emitted[i]

\* a call that emitted an action for each of two machines
C1_Witness ==
    /\ NumMachines(framework) = 2
    /\ Len(emitted) = 2
    /\ emitted[1].kind = "InjectPadding"

\* C2: no call fails with an out-of-bounds access, whatever the state of
\* the machines the events name
C2_CallsNeverFail == ~panicked

\* C3: a machine in STATEEND stays there, and no later call emits an action
\* for it
C3_StateEndAbsorbing ==
    [][\A mi \in MachineIds(framework) :
          framework.runtime[mi].current_state = STATEEND =>
              /\ framework'.runtime[mi].current_state = STATEEND
              /\ \A i \in 1 .. Len(emitted') : emitted'[i].machine # mi]_vars

\* a machine in STATEEND is handed an event, in a call that completes
C3_Witness ==
    SomeOutcome(LAMBDA o :
        /\ ~o.x.panicked
        /\ \E k \in Steps(o) :
              /\ o.x.trace[k].op = "transition"
              /\ o.x.trace[k].outcome = "in_end")

\* C4: the current state of every machine is STATEEND or the index of one
\* of its states, never STATECANCEL or STATENOP
C4_CurrentStateValid ==
    \A mi \in MachineIds(framework) :
        LET cs == framework.runtime[mi].current_state
        IN /\ cs = STATEEND \/ cs \in 0 .. VecLen(framework.machines[mi].states) - 1
           /\ cs \notin {STATECANCEL, STATENOP}

\* one machine has ended and the other has just drawn STATECANCEL
C4_Witness ==
    \E mi, mj \in MachineIds(framework) :
        /\ framework.runtime[mi].current_state = STATEEND
        /\ framework.actions[mj] = Cancel(mj)
        /\ framework.runtime[mj].current_state \in {0, 1}

\* C5: below_action_limits is false when the state limit is 0, whatever
\* the budgets, the caps, the overwrite flag and the blocking status are,
\* and no transition evaluated with a state limit of 0 sets an action
C5_NoActionAtStateLimitZero ==
    /\ \A mi \in MachineIds(framework) :
          framework.runtime[mi].current_state # STATEEND =>
              ~BelowActionLimits(
                   framework,
                   [framework.runtime[mi] EXCEPT !.state_limit = 0],
                   framework.machines[mi])
    /\ EveryOutcome(LAMBDA o : \A k \in Steps(o) :
          LET r == o.x.trace[k]
          IN Evaluated(r) /\ r.rt.state_limit = 0 =>
                 ~r.below /\ r.action = None)

\* a transition evaluated with a state limit of 0 while the machine has
\* padding budget left, and one into a block that overwrites while nothing
\* is blocked
C5_Witness ==
    SomeOutcome(LAMBDA o : \E k, l \in Steps(o) :
        LET r == o.x.trace[k]
            q == o.x.trace[l]
        IN /\ PaddingChecked(r)
           /\ r.rt.state_limit = 0
           /\ r.rt.padding_sent < MachineOf(r).allowed_padding_bytes
           /\ Evaluated(q)
           /\ q.rt.state_limit = 0
           /\ StateOf(q).action_is_block
           /\ StateOf(q).block_overwrite
           /\ ~q.g.blocking_active)

\* C6: with no padding budget and a padding cap f > 0, for an embedder that
\* pads only as instructed, the padding fraction of the machine is at most
\* f once it has sent padding
C6_PaddingFractionBounded ==
    \A mi \in MachineIds(framework) :
        LET machine == framework.machines[mi]
            rt == framework.runtime[mi]
        IN /\ machine.allowed_padding_bytes = 0
           /\ FracPositive(machine.max_padding_frac)
           /\ rt.padding_sent > 0
           => rt.padding_sent * machine.max_padding_frac.den
                  <= machine.max_padding_frac.num
                         * (rt.padding_sent + rt.nonpadding_sent)

\* the framework-wide padding fraction is below the framework's cap, when
\* there is one
FrameworkPaddingBelow(r) ==
    FracPositive(framework.global_max_padding_frac) =>
        RatioLt(r.g.padding, r.g.padding + r.g.nonpadding,
                framework.global_max_padding_frac)

\* what the per-machine padding cap says of the limit check r: within the
\* budget only the state limit gates the action; past it, with a cap f > 0,
\* nothing is scheduled while the fraction is at least f, and padding is
\* scheduled when the fraction is below f (and resumes holds)
PaddingCapRespected(r, resumes) ==
    LET machine == MachineOf(r)
        cap == machine.max_padding_frac
        sent == r.rt.padding_sent
        total == r.rt.padding_sent + r.rt.nonpadding_sent
    IN IF sent < machine.allowed_padding_bytes
       THEN r.rt.state_limit > 0 =>
                r.below /\ r.action.kind = "InjectPadding"
       ELSE FracPositive(cap) =>
                /\ RatioGe(sent, total, cap) => ~r.below /\ r.action = None
                /\ RatioLt(sent, total, cap) /\ r.rt.state_limit > 0
                       /\ resumes
                   => r.below /\ r.action.kind = "InjectPadding"

\* C7, as stated: per-machine padding cap; once the fraction is below f,
\* the next transition schedules padding
C7_ResumesBelowMachineCap ==
    EveryOutcome(LAMBDA o : \A k \in Steps(o) :
        PaddingChecked(o.x.trace[k]) =>
            PaddingCapRespected(o.x.trace[k], TRUE))

\* C7, amended: per-machine padding cap; once the fraction is below f, the
\* next transition schedules padding provided the framework-wide fraction
\* is below the framework's cap too, when the framework has one
C7_PerMachinePaddingCap ==
    EveryOutcome(LAMBDA o : \A k \in Steps(o) :
        PaddingChecked(o.x.trace[k]) =>
            PaddingCapRespected(o.x.trace[k],
                                FrameworkPaddingBelow(o.x.trace[k])))

\* a machine past its budget whose fraction was at least f schedules
\* padding on the NonPaddingSent that brings the fraction below f
C7_Witness ==
    SomeOutcome(LAMBDA o : \E k \in Steps(o) :
        LET r == o.x.trace[k]
            before == framework.runtime[r.mi]
        IN /\ PaddingChecked(r)
           /\ r.event = "NonPaddingSent"
           /\ r.rt.padding_sent >= MachineOf(r).allowed_padding_bytes
           /\ FracPositive(MachineOf(r).max_padding_frac)
           /\ RatioGe(before.padding_sent,
                      before.padding_sent + before.nonpadding_sent,
                      MachineOf(r).max_padding_frac)
           /\ RatioLt(r.rt.padding_sent,
                      r.rt.padding_sent + r.rt.nonpadding_sent,
                      MachineOf(r).max_padding_frac)
           /\ r.below
           /\ o.x.f.actions[r.mi].kind = "InjectPadding")

\* C8: with machine caps of 0 and a framework cap g > 0, a machine pads
\* freely within its budget; past it, nothing is scheduled while the
\* framework-wide fraction is at least g, and on a NonPaddingSent that
\* finds the fraction below g the machine schedules padding, emitted by the
\* same call
C8_GlobalPaddingCap ==
    EveryOutcome(LAMBDA o : \A k \in Steps(o) :
        LET r == o.x.trace[k]
            g == framework.global_max_padding_frac
            total == r.g.padding + r.g.nonpadding
        IN /\ PaddingChecked(r)
           /\ ~FracPositive(MachineOf(r).max_padding_frac)
           /\ FracPositive(g)
           => IF r.rt.padding_sent < MachineOf(r).allowed_padding_bytes
              THEN r.rt.state_limit > 0 =>
                       r.below /\ r.action.kind = "InjectPadding"
              ELSE /\ RatioGe(r.g.padding, total, g) =>
                          ~r.below /\ r.action = None
                   /\ RatioLt(r.g.padding, total, g)
                          /\ r.rt.state_limit > 0
                          /\ r.event = "NonPaddingSent"
                      => /\ r.below
                         /\ r.action.kind = "InjectPadding"
                         /\ Len(o.events) = 1
                                /\ StateOf(r).limit.dist = "None"
                            => o.x.f.actions[r.mi] = r.action)

\* two machines past their budgets, the framework-wide fraction at least
\* g, and a NonPaddingSent after which the call emits padding for both
C8_Witness ==
    /\ NumMachines(framework) = 2
    /\ FracPositive(framework.global_max_padding_frac)
    /\ RatioGe(framework.global_paddingsent_bytes,
               framework.global_paddingsent_bytes
                   + framework.global_nonpadding_sent_bytes,
               framework.global_max_padding_frac)
    /\ \A mi \in MachineIds(framework) :
          /\ ~FracPositive(framework.machines[mi].max_padding_frac)
          /\ framework.runtime[mi].padding_sent
                 >= framework.machines[mi].allowed_padding_bytes
    /\ SomeOutcome(LAMBDA o :
          /\ Len(o.events) = 1
          /\ o.events[1].type = "NonPaddingSent"
          /\ \A mi \in MachineIds(framework) :
                o.x.f.actions[mi].kind = "InjectPadding")

\* what the blocking cap says of the limit check r of a block that does
\* not overwrite: within the budget only the state limit gates the action;
\* past it nothing is scheduled while the fraction of the machine is at
\* least its cap f > 0 or, with f = 0, while the framework-wide fraction
\* is at least the framework's cap g > 0; and a block is scheduled when
\* the fraction is below the cap: as stated, the cap of the machine if it
\* has one, else that of the framework; amended, every cap there is
BlockingCapRespected(r, amended) ==
    LET machine == MachineOf(r)
        f == machine.max_blocking_frac
        g == framework.global_max_blocking_frac
        ongoing == IF r.g.blocking_active
                   THEN r.g.now - r.g.blocking_started
                   ELSE 0
        m_block == r.rt.blocking_duration + ongoing
        g_block == r.g.blocking_duration + ongoing
        m_elapsed == r.g.now - r.rt.machine_start
        g_elapsed == r.g.now - framework.global_framework_start
        m_below == RatioLt(m_block, m_elapsed, f)
        g_below == RatioLt(g_block, g_elapsed, g)
        resumes ==
            IF amended
            THEN /\ FracPositive(f) \/ FracPositive(g)
                 /\ FracPositive(f) => m_below
                 /\ FracPositive(g) => g_below
            ELSE \/ FracPositive(f) /\ m_below
                 \/ ~FracPositive(f) /\ FracPositive(g) /\ g_below
    IN IF m_block < machine.allowed_blocked_microsec
       THEN r.below <=> r.rt.state_limit > 0
       ELSE /\ FracPositive(f) /\ RatioGe(m_block, m_elapsed, f)
               => ~r.below /\ r.action = None
            /\ ~FracPositive(f) /\ FracPositive(g)
                   /\ RatioGe(g_block, g_elapsed, g)
               => ~r.below /\ r.action = None
            /\ resumes /\ r.rt.state_limit > 0
               => r.below /\ r.action.kind = "BlockOutgoing"

LimitedDecrement(r) ==
    /\ r.op = "decrement"
    /\ r.cs \in DOMAIN framework.machines[r.mi].states
    /\ framework.machines[r.mi].states[r.cs].limit.dist # "None"

\* C10: in a state with a sampled limit, within the padding budget, the
\* action is scheduled on entry and on every PaddingSent that leaves the
\* state unchanged while the limit is not used up, and a call of one such
\* PaddingSent emits it; the decrement that brings state_limit to 0 clears
\* the pending action and dispatches LimitReached to the machine in the
\* same call; if that causes no transition, the call emits no action for
\* the machine and state_limit stays 0
C10_StateLimit ==
    EveryOutcome(LAMBDA o : \A k \in Steps(o) :
        LET r == o.x.trace[k]
            tr == o.x.trace
        IN /\ /\ PaddingChecked(r)
              /\ StateOf(r).limit.dist # "None"
              /\ r.rt.state_limit >= 1
              /\ r.rt.padding_sent < MachineOf(r).allowed_padding_bytes
              => r.below /\ r.action.kind = "InjectPadding"
           /\ LimitedDecrement(r) /\ r.before >= 1 =>
                 /\ r.after = r.before - 1
                 /\ r.before >= 2 =>
                       /\ ~r.reached
                       /\ Len(o.events) = 1 /\ tr[k - 1].event = "PaddingSent"
                          => /\ o.x.f.actions[r.mi] = tr[k - 1].action
                             /\ o.x.f.runtime[r.mi].state_limit = r.after
                 /\ r.before = 1 =>
                       /\ r.reached
                       /\ k < Len(tr)
                       /\ tr[k + 1].op = "transition"
                       /\ tr[k + 1].event = "LimitReached"
                       /\ tr[k + 1].mi = r.mi
                       /\ tr[k + 1].pending = None
                       /\ tr[k + 1].outcome = "no_next" =>
                             /\ tr[k + 1].rt.state_limit = 0
                             /\ k + 1 = Len(tr) =>
                                   /\ o.x.f.actions[r.mi] = None
                                   /\ o.x.f.runtime[r.mi].state_limit = 0)

\* a PaddingSent that schedules the action of a state with a limit of 1
\* and whose decrement uses the limit up; LimitReached causes no
\* transition and ends the call
C10_Witness ==
    SomeOutcome(LAMBDA o : \E k \in Steps(o) :
        LET r == o.x.trace[k]
            tr == o.x.trace
        IN /\ LimitedDecrement(r)
           /\ r.before = 1
           /\ k > 1
           /\ tr[k - 1].event = "PaddingSent"
           /\ tr[k - 1].action.kind = "InjectPadding"
           /\ k + 1 = Len(tr)
           /\ tr[k + 1].outcome = "no_next"
           /\ o.x.f.actions[r.mi] = None)

\* the machines process_event hands the event e to, in the order of its
\* loop
RECURSIVE VisitsOfEvent(_, _, _)
VisitsOfEvent(e, mi, len) ==
    IF mi >= len THEN <<>>
    ELSE (IF e.type \in {"PaddingSent", "LimitReached"} /\ e.machine # mi
          THEN <<>>
          ELSE <<[event |-> e.type, mi |-> mi]>>)
             \o VisitsOfEvent(e, mi + 1, len)

\* caller's order of the events, index order of the machines
RECURSIVE Visits(_, _, _)
Visits(events, i, len) ==
    IF i > Len(events) THEN <<>>
    ELSE VisitsOfEvent(events[i], 0, len) \o Visits(events, i + 1, len)

\* the transitions of a history from position k on, without those that
\* decrement_limit dispatches itself
RECURSIVE Visited(_, _)
Visited(tr, k) ==
    IF k > Len(tr) THEN <<>>
    ELSE (IF /\ tr[k].op = "transition"
             /\ ~(k > 1 /\ tr[k - 1].op = "decrement" /\ tr[k - 1].reached)
          THEN <<[event |-> tr[k].event, mi |-> tr[k].mi]>>
          ELSE <<>>)
             \o Visited(tr, k + 1)

\* r sets the pending action of its machine (a scheduled action or
\* Cancel), or clears it (a limit that is reached)
SetsAction(r) ==
    \/ r.op = "transition" /\ (r.below \/ r.outcome = "cancel")
    \/ r.op = "decrement" /\ r.reached

\* what r leaves as the pending action
ActionLeftBy(r) == IF r.op = "transition" THEN r.action ELSE None

\* the pending action of machine mi after the last step of the history
\* that set or cleared it, None if there is none
RECURSIVE LastAction(_, _, _)
LastAction(tr, mi, k) ==
    IF k = 0 THEN None
    ELSE IF tr[k].mi = mi /\ SetsAction(tr[k]) THEN ActionLeftBy(tr[k])
    ELSE LastAction(tr, mi, k - 1)

\* C11: a call processes the events in the caller's order and, for each
\* event, the machines in index order; the action it emits for a machine
\* is the one left by the last step that set or cleared the pending action
\* of the machine, so a later action overwrites an earlier one and a later
\* event without a transition leaves it in place
C11_EventOrderLastActionWins ==
    EveryOutcome(LAMBDA o :
        ~o.x.panicked =>
            /\ Visited(o.x.trace, 1)
                   = Visits(o.events, 1, NumMachines(framework))
            /\ \A mi \in MachineIds(framework) :
                  o.x.f.actions[mi]
                      = LastAction(o.x.trace, mi, Len(o.x.trace))
            /\ FilterActions(o.x.f.actions, 0)
                   = FilterActions(
                         [mi \in MachineIds(framework) |->
                             LastAction(o.x.trace, mi, Len(o.x.trace))], 0))

\* a call of two events for two machines in which the second event
\* overwrites the Cancel the first set for a machine with a block, and one
\* in which the second event causes no transition and the block the first
\* scheduled is emitted
C11_Witness ==
    /\ NumMachines(framework) = 2
    /\ SomeOutcome(LAMBDA o : \E k, l \in Steps(o) :
          LET tr == o.x.trace
          IN /\ ~o.x.panicked
             /\ Len(o.events) = 2
             /\ k < l
             /\ tr[k].op = "transition" /\ tr[l].op = "transition"
             /\ tr[k].mi = tr[l].mi
             /\ tr[k].action = Cancel(tr[k].mi)
             /\ tr[l].action.kind = "BlockOutgoing"
             /\ o.x.f.actions[tr[l].mi] = tr[l].action)
    /\ SomeOutcome(LAMBDA o : \E k, l \in Steps(o) :
          LET tr == o.x.trace
          IN /\ ~o.x.panicked
             /\ Len(o.events) = 2
             /\ k < l
             /\ tr[k].op = "transition" /\ tr[l].op = "transition"
             /\ tr[k].mi = tr[l].mi
             /\ tr[k].action.kind = "BlockOutgoing"
             /\ tr[l].outcome = "no_next"
             /\ o.x.f.actions[tr[l].mi] = tr[k].action)

\* the history tr holds a transition of machine mi that set its pending
\* action
SetInCall(tr, mi) ==
    \E k \in 1 .. Len(tr) :
        /\ tr[k].op = "transition"
        /\ tr[k].mi = mi
        /\ tr[k].below \/ tr[k].outcome = "cancel"

\* C12: a call starts from cleared pending actions: the first step of a
\* machine finds none pending, whatever the call before emitted; a call
\* emits an action for a machine only if its own events set one, and a
\* call with no events emits nothing
C12_ActionsClearedFirst ==
    EveryOutcome(LAMBDA o :
        LET tr == o.x.trace
        IN ~o.x.panicked =>
               /\ \A k \in Steps(o) :
                     (\A j \in 1 .. k - 1 : tr[j].mi # tr[k].mi)
                         /\ tr[k].op = "transition"
                     => tr[k].pending = None
               /\ \A mi \in MachineIds(framework) :
                     ~SetInCall(tr, mi) =>
                         /\ o.x.f.actions[mi] = None
                         /\ \A i \in 1 .. Len(FilterActions(o.x.f.actions, 0)) :
                               FilterActions(o.x.f.actions, 0)[i].machine
                                   # mi
               /\ o.events = <<>> =>
                     FilterActions(o.x.f.actions, 0) = <<>>)

\* the call before emitted an action for a machine; a call with no events
\* emits nothing, and so does a call whose event causes no transition for
\* the machine
C12_Witness ==
    \E mi \in MachineIds(framework) :
        /\ Len(emitted) > 0
        /\ framework.actions[mi] # None
        /\ SomeOutcome(LAMBDA o :
              o.events = <<>> /\ FilterActions(o.x.f.actions, 0) = <<>>)
        /\ SomeOutcome(LAMBDA o :
              /\ ~o.x.panicked
              /\ Len(o.events) = 1
              /\ \E k \in Steps(o) :
                    /\ o.x.trace[k].op = "transition"
                    /\ o.x.trace[k].mi = mi
                    /\ o.x.trace[k].outcome = "no_next"
              /\ ~SetInCall(o.x.trace, mi)
              /\ o.x.f.actions[mi] = None)

\* state 0 of the machine has a transition to itself on some event
SelfTransitionOfState0(machine) ==
    \E event \in DOMAIN machine.states[0].next_state :
        machine.states[0].next_state[event][1] > 0

\* C13: a framework that has just been constructed has every machine in
\* state 0 with a state limit sampled from the limit of state 0, so that a
\* machine with a budget whose first transition is a self-transition of
\* state 0 can schedule the action of state 0
C13_InitialStateLimitSampled ==
    Init =>
        \A mi \in MachineIds(framework) :
            LET machine == framework.machines[mi]
                rt == framework.runtime[mi]
            IN /\ rt.current_state = 0
               /\ rt.state_limit \in SampleLimit(machine.states[0])
               /\ /\ SelfTransitionOfState0(machine)
                  /\ \E lim \in SampleLimit(machine.states[0]) : lim > 0
                  /\ machine.allowed_padding_bytes > 0
                  => SomeOutcome(LAMBDA o :
                         /\ Len(o.x.trace) >= 1
                         /\ \E k \in Steps(o) :
                               /\ o.x.trace[k].op = "transition"
                               /\ o.x.trace[k].mi = mi
                               /\ o.x.trace[k].outcome = "same"
                               /\ o.x.trace[k].from = 0
                               /\ o.x.trace[k].below
                               /\ \A j \in 1 .. k - 1 :
                                     o.x.trace[j].mi # mi)

\* C14: a padding cap evaluated with a denominator of zero rejects the
\* action: the cap of the machine when the machine has sent nothing, and
\* the cap of the framework when nothing has been sent at all
C14_ZeroDenominatorRejects ==
    EveryOutcome(LAMBDA o : \A k \in Steps(o) :
        LET r == o.x.trace[k]
        IN /\ PaddingChecked(r)
           /\ r.rt.padding_sent >= MachineOf(r).allowed_padding_bytes
           /\ \/ /\ FracPositive(MachineOf(r).max_padding_frac)
                 /\ r.rt.padding_sent + r.rt.nonpadding_sent = 0
              \/ /\ FracPositive(framework.global_max_padding_frac)
                 /\ r.g.padding + r.g.nonpadding = 0
           => ~r.below /\ r.action = None)

\* the cap of the machine lets the padding of the limit check r pass: the
\* machine has sent something and its fraction is below its cap
MachineCapPasses(r) ==
    RatioLt(r.rt.padding_sent, r.rt.padding_sent + r.rt.nonpadding_sent,
            MachineOf(r).max_padding_frac)

\* the cap of the framework rejects the padding of the limit check r
FrameworkCapRejects(r) ==
    /\ FracPositive(framework.global_max_padding_frac)
    /\ RatioGe(r.g.padding, r.g.padding + r.g.nonpadding,
               framework.global_max_padding_frac)

\* C15, as stated: past the budget of a machine with a cap f > 0, the
\* decision depends on the fraction of the machine and on the state limit
\* only
C15_MachineCapAlone ==
    EveryOutcome(LAMBDA o : \A k \in Steps(o) :
        LET r == o.x.trace[k]
        IN /\ PaddingChecked(r)
           /\ r.rt.padding_sent >= MachineOf(r).allowed_padding_bytes
           /\ FracPositive(MachineOf(r).max_padding_frac)
           => (r.below <=> MachineCapPasses(r) /\ r.rt.state_limit > 0))

\* C15, amended: the two caps are checked one after the other: past the
\* budget, padding is scheduled when the cap of the machine, if it has
\* one, passes, the cap of the framework, if it has one, does not reject,
\* and the state limit is not used up
C15_BothCapsInSequence ==
    EveryOutcome(LAMBDA o : \A k \in Steps(o) :
        LET r == o.x.trace[k]
        IN /\ PaddingChecked(r)
           /\ r.rt.padding_sent >= MachineOf(r).allowed_padding_bytes
           => (r.below <=>
                  /\ FracPositive(MachineOf(r).max_padding_frac)
                         => MachineCapPasses(r)
                  /\ ~FrameworkCapRejects(r)
                  /\ r.rt.state_limit > 0))

\* a machine past its budget, below its own cap and with a state limit
\* left, is refused padding by the cap of the framework
C15_Witness ==
    SomeOutcome(LAMBDA o : \E k \in Steps(o) :
        LET r == o.x.trace[k]
        IN /\ PaddingChecked(r)
           /\ r.rt.padding_sent >= MachineOf(r).allowed_padding_bytes
           /\ FracPositive(MachineOf(r).max_padding_frac)
           /\ MachineCapPasses(r)
           /\ r.rt.state_limit > 0
           /\ FrameworkCapRejects(r)
           /\ ~r.below
           /\ o.x.f.actions[r.mi] = None)

\* C16: a cap of 0 is no cap: with both blocking caps 0 and no blocking
\* budget, every transition into a blocking state with a state limit left
\* schedules a block, also while a block is going on; with both padding
\* caps 0, padding is scheduled exactly when a state limit is left
C16_ZeroCapDisabled ==
    EveryOutcome(LAMBDA o : \A k \in Steps(o) :
        LET r == o.x.trace[k]
        IN /\ /\ Evaluated(r)
              /\ StateOf(r).action_is_block
              /\ ~FracPositive(MachineOf(r).max_blocking_frac)
              /\ ~FracPositive(framework.global_max_blocking_frac)
              /\ MachineOf(r).allowed_blocked_microsec = 0
              => /\ r.below <=> r.rt.state_limit > 0
                 /\ r.below => r.action.kind = "BlockOutgoing"
           /\ /\ PaddingChecked(r)
              /\ ~FracPositive(MachineOf(r).max_padding_frac)
              /\ ~FracPositive(framework.global_max_padding_frac)
              => /\ r.below <=> r.rt.state_limit > 0
                 /\ r.below => r.action.kind = "InjectPadding")

\* without caps and budgets, a block is scheduled while a block is going
\* on that has lasted since the machine started, and padding is scheduled
\* by a machine that has sent nothing but padding
C16_Witness ==
    /\ ~FracPositive(framework.global_max_blocking_frac)
    /\ ~FracPositive(framework.global_max_padding_frac)
    /\ SomeOutcome(LAMBDA o : \E k \in Steps(o) :
          LET r == o.x.trace[k]
          IN /\ BlockChecked(r)
             /\ ~FracPositive(MachineOf(r).max_blocking_frac)
             /\ MachineOf(r).allowed_blocked_microsec = 0
             /\ r.g.blocking_active
             /\ r.g.now > r.g.blocking_started
             /\ r.g.blocking_started = r.rt.machine_start
             /\ r.below
             /\ o.x.f.actions[r.mi].kind = "BlockOutgoing")
    /\ SomeOutcome(LAMBDA o : \E k \in Steps(o) :
          LET r == o.x.trace[k]
          IN /\ PaddingChecked(r)
             /\ ~FracPositive(MachineOf(r).max_padding_frac)
             /\ MachineOf(r).allowed_padding_bytes = 0
             /\ r.rt.padding_sent > 0
             /\ r.rt.nonpadding_sent = 0
             /\ r.below
             /\ o.x.f.actions[r.mi].kind = "InjectPadding")

\* C17: over calls with clock values that do not decrease, the counters
\* of the framework (padding bytes, non-padding bytes, blocking duration)
\* and of every machine never decrease
C17_AccountingMonotone ==
    [][/\ framework'.current_time >= framework.current_time
       /\ framework'.global_paddingsent_bytes
              >= framework.global_paddingsent_bytes
       /\ framework'.global_nonpadding_sent_bytes
              >= framework.global_nonpadding_sent_bytes
       /\ framework'.global_blocking_duration
              >= framework.global_blocking_duration
       /\ \A mi \in MachineIds(framework) :
             /\ framework'.runtime[mi].padding_sent
                    >= framework.runtime[mi].padding_sent
             /\ framework'.runtime[mi].nonpadding_sent
                    >= framework.runtime[mi].nonpadding_sent
             /\ framework'.runtime[mi].blocking_duration
                    >= framework.runtime[mi].blocking_duration]_vars

\* a second block has ended: the framework and a machine have counted
\* more blocking than the block that has just ended lasted
C17_Witness ==
    /\ ~framework.global_blocking_active
    /\ framework.global_blocking_duration
           > framework.current_time - framework.global_blocking_started
    /\ framework.current_time > framework.global_blocking_started
    /\ \E mi \in MachineIds(framework) :
          framework.runtime[mi].blocking_duration
              = framework.global_blocking_duration

\* what the random draws of a call came to, in the order of the history:
\* for each transition the return it took, the state next_state drew, the
\* limit sample_limit drew on a change of state, and the action (timeout,
\* size or duration) schedule_action drew
RECURSIVE Draws(_, _)
Draws(tr, k) ==
    IF k > Len(tr) THEN <<>>
    ELSE (IF tr[k].op = "transition"
          THEN <<[outcome |-> tr[k].outcome,
                  state |-> tr[k].rt.current_state,
                  limit |-> IF tr[k].outcome = "changed"
                            THEN tr[k].rt.state_limit
                            ELSE 0,
                  action |-> tr[k].action]>>
          ELSE <<>>)
             \o Draws(tr, k + 1)

\* the ways the call c of the framework can go
OutcomesOf(c) ==
    TriggerEventsOutcomes(framework, c.events, c.current_time)

InUnitInterval(x) == ~IsNaN(x) /\ 0 <= x.num /\ x.num <= x.den

\* x lies in (0, 1]; NaN does not
InHalfOpenUnitInterval(x) == ~IsNaN(x) /\ 0 < x.num /\ x.num <= x.den

\* C19: Framework::new returns an error, and no Framework, exactly when
\* some machine fails validation or max_padding_frac or max_blocking_frac
\* lies outside [0, 1]; without machines and with fractions in [0, 1] it
\* succeeds, 0.0 and 1.0 included.
C19_NewFailsExactlyOnInvalidArguments ==
    result.op = "new" =>
        /\ ~result.ok <=>
              \/ \E i \in DOMAIN args.machines :
                    ~MachineValidate(args.machines[i])
              \/ ~InUnitInterval(args.max_padding_frac)
              \/ ~InUnitInterval(args.max_blocking_frac)
        /\ ~result.ok => framework = NoFramework
        /\ result.ok => framework # NoFramework
        /\ (/\ args.machines = <<>>
            /\ InUnitInterval(args.max_padding_frac)
            /\ InUnitInterval(args.max_blocking_frac)) => result.ok

\* the validity of a state as C20 words it
StateValidAsClaimed(state, num_states) ==
    /\ \A event \in DOMAIN state.transitions :
          LET vector == state.transitions[event]
          IN /\ \A i \in 1 .. Len(vector) :
                   /\ \/ vector[i].state \in 0 .. num_states - 1
                      \/ vector[i].state \in {STATECANCEL, STATEEND}
                   /\ \A j \in 1 .. Len(vector) :
                         vector[j].state = vector[i].state => j = i
                   /\ InHalfOpenUnitInterval(vector[i].probability)
             /\ InHalfOpenUnitInterval(
                    SumOfProbabilities(vector, Len(vector)))
    /\ state.action.kind # "None" => ActionValidate(state.action)

\* the validity of a machine as C20 words it
MachineValidAsClaimed(machine) ==
    /\ InUnitInterval(machine.max_padding_frac)
    /\ InUnitInterval(machine.max_blocking_frac)
    /\ Len(machine.states) \in 1 .. STATEMAX
    /\ \A i \in 1 .. Len(machine.states) :
          StateValidAsClaimed(machine.states[i], Len(machine.states))

\* C20: Machine validation accepts exactly the machines with both
\* fractions in [0, 1], between 1 and STATE_MAX states and every state
\* valid against the number of states: targets below the count or
\* STATE_CANCEL or STATE_END, no target twice for one event, each
\* probability in (0, 1], each event's sum in (0, 1], and the distributions
\* of the action valid.
C20_ValidateAcceptsExactlyValidMachines ==
    result.op = "validate" =>
        (result.ok <=> MachineValidAsClaimed(args.machines[result.mi]))

\* the events the sub-heap q of an EventQueue holds, each with q
HeldIn(queue, q) ==
    {[event |-> SubHeapOf(queue, q)[i], q |-> q] :
        i \in 1 .. Len(SubHeapOf(queue, q))}

Queues == {"Blocking", "Bypassable", "Internal", "Base"}

\* the events a SimQueue holds, each with its sub-heap
Held(sq) ==
    UNION {HeldIn(sq.client, q) \cup HeldIn(sq.server, q) : q \in Queues}

\* the time at which an event of sub-heap q is due
EffectiveTime(event, q, network_delay_sum) ==
    IF q = "Base" THEN event.time + network_delay_sum ELSE event.time

\* h is due no later than g: earlier, or at the same time with a rank
\* that is not larger
DueNoLater(h, g, network_delay_sum) ==
    LET th == EffectiveTime(h.event, h.q, network_delay_sum)
        tg == EffectiveTime(g.event, g.q, network_delay_sum)
    IN \/ th < tg
       \/ /\ th = tg
          /\ EventToUsize(h.event.event) <= EventToUsize(g.event.event)

\* peek returned an event of the queue that is due no later than any other
PeekIsMinimal(sq, network_delay_sum, current_time) ==
    LET p == SimQueuePeek(sq, network_delay_sum, current_time)
        h == [event |-> p.event, q |-> p.q]
    IN /\ p.event = NoEvent <=> SimQueueLen(sq) = 0
       /\ p.event # NoEvent =>
             /\ h \in Held(sq)
             /\ \A g \in Held(sq) : DueNoLater(h, g, network_delay_sum)

\* C21: for any queue contents, network_delay_sum and current_time, peek
\* returns an event whose effective time is minimal over all events of the
\* four sub-heaps of both endpoints, ties broken by the smaller rank, and
\* no event only when the queue is empty.
C21_PeekReturnsMinimum ==
    \A network_delay_sum \in Delays, current_time \in CurrentTimes :
        PeekIsMinimal(sim_queue, network_delay_sum, current_time)

\* the same, for a current_time that is not later than any event
C21_MinimumIfNotOverdue ==
    \A network_delay_sum \in Delays :
        PeekIsMinimal(sim_queue, network_delay_sum, 0)

\* the event a pop of sub-heap q returns for the stored event
AsPopped(event, q, network_delay_sum) ==
    IF q = "Base" THEN [event EXCEPT !.time = @ + network_delay_sum]
    ELSE event

\* from before to after, the head of sub-heap q of the endpoint is gone
\* and every other event of the SimQueue is where it was
OnlyHeadRemoved(before, after, q, is_client) ==
    \A c \in BOOLEAN, k \in Queues :
        IF c = is_client /\ k = q
        THEN /\ SubHeapOf(Endpoint(before, c), k) # <<>>
             /\ SubHeapOf(Endpoint(after, c), k)
                    = Tail(SubHeapOf(Endpoint(before, c), k))
        ELSE SubHeapOf(Endpoint(after, c), k)
                 = SubHeapOf(Endpoint(before, c), k)

\* C22: if peek(network_delay_sum, current_time) returns (e, tag, d) on a
\* queue that is not empty, pop(tag, e.client, network_delay_sum) called
\* next removes and returns exactly e (its time rewritten when tag is
\* Base), len() decreases by one and all other events remain.
C22_PopRemovesPeeked ==
    \A network_delay_sum \in Delays, current_time \in CurrentTimes :
        LET p == SimQueuePeek(sim_queue, network_delay_sum, current_time)
            r == SimQueuePop(sim_queue, p.q, p.event.client,
                             network_delay_sum)
        IN p.event # NoEvent =>
              /\ ~r.panicked
              /\ r.event = AsPopped(p.event, p.q, network_delay_sum)
              /\ HeapPeek(SubHeapOf(Endpoint(sim_queue, p.event.client), p.q))
                     = p.event
              /\ SimQueueLen(r.queue) = SimQueueLen(sim_queue) - 1
              /\ OnlyHeadRemoved(sim_queue, r.queue, p.q, p.event.client)

\* a base event was popped with its time rewritten, from a queue that
\* holds events of both endpoints after it
C22_Witness ==
    /\ result = Returned("pop", 0, TRUE)
    /\ emitted # <<>>
    /\ emitted[1].event = "NormalSent"
    /\ \A t \in Instants : emitted[1].time > t
    /\ EventQueueLen(sim_queue.client) > 0
    /\ EventQueueLen(sim_queue.server) > 0

\* the heads of the sub-heaps of an EventQueue other than base
OtherHeads(queue) ==
    {HeapPeek(SubHeapOf(queue, q)) :
        q \in {"Blocking", "Bypassable", "Internal"}} \ {NoEvent}

\* (t1, rank of e1) is lexicographically before (t2, rank of e2)
LexBefore(t1, e1, t2, e2) ==
    t1 < t2 \/ (t1 = t2 /\ EventToUsize(e1.event) < EventToUsize(e2.event))

\* base events are ordered and delivered in delayed time by an
\* EventQueue; the duration of a base event is the difference to
\* current_time, cut off at zero if saturating
BaseInDelayedTime(queue, network_delay_sum, current_time, saturating) ==
    LET p == EventQueuePeek(queue, network_delay_sum, current_time)
        base == HeapPeek(queue.base)
    IN /\ p.q = "Base" /\ p.event # NoEvent <=>
             /\ base # NoEvent
             /\ \A o \in OtherHeads(queue) :
                   LexBefore(base.time + network_delay_sum, base,
                             o.time, o)
       /\ p.q = "Base" /\ p.event # NoEvent =>
             /\ p.event = base
             /\ p.duration =
                   IF saturating
                         /\ current_time > base.time + network_delay_sum
                   THEN 0
                   ELSE base.time + network_delay_sum - current_time
       /\ \A q \in Queues :
             LET r == EventQueuePop(queue, q, network_delay_sum)
                 head == HeapPeek(SubHeapOf(queue, q))
             IN head # NoEvent =>
                   /\ r.event.time =
                         IF q = "Base" THEN head.time + network_delay_sum
                         ELSE head.time
                   /\ [r.event EXCEPT !.time = head.time] = head

\* C23 as stated: peek selects the head of base over the earliest other
\* event exactly when (base.time + network_delay_sum, rank) is before
\* (other.time, rank), reports base.time + network_delay_sum -
\* current_time for a base event, and pop returns a base event with time
\* + network_delay_sum and other events with their stored time.
C23_BaseDurationIsDifference ==
    \A is_client \in BOOLEAN, network_delay_sum \in Delays,
       current_time \in CurrentTimes :
        BaseInDelayedTime(Endpoint(sim_queue, is_client), network_delay_sum,
                          current_time, FALSE)

\* C23, amended: the same, with the duration of a base event being
\* base.time + network_delay_sum - current_time if current_time is not
\* later than base.time + network_delay_sum, and zero if it is.
C23_BaseInDelayedTime ==
    \A is_client \in BOOLEAN, network_delay_sum \in Delays,
       current_time \in CurrentTimes :
        BaseInDelayedTime(Endpoint(sim_queue, is_client), network_delay_sum,
                          current_time, TRUE)

\* an endpoint whose base head is chosen without delay and passed over
\* with a delay, although with the delay it is overdue; and the last pop
\* returned a base event in delayed time
C23_Witness ==
    /\ result = Returned("pop", 0, TRUE)
    /\ emitted # <<>>
    /\ emitted[1].event = "NormalSent"
    /\ \A t \in Instants : emitted[1].time > t
    /\ \E is_client \in BOOLEAN, d \in Delays, ct \in CurrentTimes :
          LET queue == Endpoint(sim_queue, is_client)
          IN /\ EventQueuePeek(queue, 0, ct).q = "Base"
             /\ EventQueuePeek(queue, d, ct).q # "Base"
             /\ EventQueuePeek(queue, d, ct).duration = 0
             /\ HeapPeek(queue.base).time + d < ct

\* the events at hand: those the queue holds and the one the last pop
\* returned
EventsAtHand ==
    {h.event : h \in Held(sim_queue)} \cup {emitted[i] : i \in DOMAIN emitted}

\* neither before(a, b, D) nor before(b, a, D)
Incomparable(a, b, D) == ~Before(a, b, D) /\ ~Before(b, a, D)

\* before(_, _, D) is irreflexive, asymmetric and transitive on the
\* events at hand
StrictPartialOrder(D) ==
    \A a, b, c \in EventsAtHand :
        /\ ~Before(a, a, D)
        /\ Before(a, b, D) => ~Before(b, a, D)
        /\ Before(a, b, D) /\ Before(b, c, D) => Before(a, c, D)

\* the incomparability of before(_, _, D) is transitive on the events at
\* hand
IncomparabilityTransitive(D) ==
    \A a, b, c \in EventsAtHand :
        Incomparable(a, b, D) /\ Incomparable(b, c, D)
            => Incomparable(a, c, D)

\* C24 as stated: for every fixed D >= 0, before(a, b, D) is a strict weak
\* ordering: irreflexive, asymmetric, transitive, with a transitive
\* incomparability relation.
C24_StrictWeakOrdering ==
    \A D \in Delays : StrictPartialOrder(D) /\ IncomparabilityTransitive(D)

\* C24, amended: for every fixed D >= 0, before(a, b, D) is irreflexive,
\* asymmetric and transitive; its incomparability relation is transitive
\* for D = 0 (a strict weak ordering) and need not be for D > 0.
C24_StrictPartialOrder ==
    \A D \in Delays :
        /\ StrictPartialOrder(D)
        /\ D = 0 => IncomparabilityTransitive(D)

\* after a pop, three events at hand with a incomparable to b and b to c
\* under a delay, but a before c
C24_Witness ==
    /\ result.op = "pop"
    /\ \E D \in Delays \ {0} : \E a, b, c \in EventsAtHand :
          /\ Incomparable(a, b, D)
          /\ Incomparable(b, c, D)
          /\ Before(a, c, D)

\* the items handed to push_sim: every kind at every time, for either
\* endpoint, with either value of bypass
Items ==
    {SimEvent(EventKinds[k], time, is_client, FALSE, bypass) :
        k \in 1 .. Len(EventKinds), time \in Instants,
        is_client \in BOOLEAN, bypass \in BOOLEAN}

\* the sub-heap C25 names for an item
SubHeapFor(item) ==
    CASE item.event = "TunnelSent" /\ item.bypass -> "Bypassable"
      [] item.event = "TunnelSent" /\ ~item.bypass -> "Blocking"
      [] item.event = "NormalSent" -> "Base"
      [] OTHER -> "Internal"

\* after holds item in sub-heap q of the endpoint in addition to the
\* events of before, and nothing else differs
OnlyItemAdded(before, after, item, q, is_client) ==
    \A c \in BOOLEAN, k \in Queues :
        IF c = is_client /\ k = q
        THEN \E i \in 1 .. Len(SubHeapOf(Endpoint(before, c), k)) + 1 :
                SubHeapOf(Endpoint(after, c), k)
                    = InsertAt(SubHeapOf(Endpoint(before, c), k), i, item)
        ELSE SubHeapOf(Endpoint(after, c), k)
                 = SubHeapOf(Endpoint(before, c), k)

\* C25: push places every event in exactly one sub-heap of exactly one
\* endpoint: the endpoint by the client flag, TunnelSent in bypassable if
\* bypass is true and in blocking otherwise, NormalSent in base, every
\* other event in internal; so base holds only NormalSent, and blocking
\* and bypassable hold only TunnelSent, in every reachable state.
C25_PushRoutes ==
    /\ \A item \in Items :
          /\ PushSim(sim_queue, item) # {}
          /\ \A after \in PushSim(sim_queue, item) :
                OnlyItemAdded(sim_queue, after, item, SubHeapFor(item),
                              item.client)
    /\ \A event \in {EventKinds[k] : k \in 1 .. Len(EventKinds)},
          is_client \in BOOLEAN, time \in Instants :
          Push(sim_queue, event, is_client, FALSE, time)
              = PushSim(sim_queue,
                        SimEvent(event, time, is_client, FALSE, FALSE))
    /\ \A h \in Held(sim_queue) :
          /\ h.q = "Base" => h.event.event = "NormalSent"
          /\ h.q \in {"Blocking", "Bypassable"} =>
                h.event.event = "TunnelSent"
          /\ h.q = SubHeapFor(h.event)
    /\ \A c \in BOOLEAN : \A h \in UNION {HeldIn(Endpoint(sim_queue, c), q) :
                                             q \in Queues} :
          h.event.client = c

\* a push_sim has put a TunnelSent with bypass in bypassable; the queue
\* holds events in base and in blocking or internal too, at both endpoints
C25_Witness ==
    /\ result.op = "push_sim"
    /\ \E is_client \in BOOLEAN :
          /\ Endpoint(sim_queue, is_client).bypassable # <<>>
          /\ Endpoint(sim_queue, ~is_client).base # <<>>
          /\ \/ Endpoint(sim_queue, ~is_client).internal # <<>>
             \/ Endpoint(sim_queue, ~is_client).blocking # <<>>

\* the heads of the sub-heaps qs of an EventQueue
Heads(queue, qs) == {HeapPeek(SubHeapOf(queue, q)) : q \in qs} \ {NoEvent}

\* p is the earliest of the heads of the sub-heaps qs, with the tag of
\* the sub-heap that holds it, and no event only if they are all empty
EarliestHeadOf(p, queue, qs) ==
    /\ p.event = NoEvent <=> Heads(queue, qs) = {}
    /\ p.event # NoEvent =>
          /\ p.q \in qs
          /\ p.event = HeapPeek(SubHeapOf(queue, p.q))
          /\ \A o \in Heads(queue, qs) : ~CmpGreater(o, p.event)

\* C26: peek_blocking(bypassable, is_client) returns only events of the
\* blocking or bypassable sub-heap of the endpoint: with bypassable = true
\* the head of blocking (tag Blocking), never a bypassable event; with
\* bypassable = false the earliest of the heads of blocking and
\* bypassable with the tag of its sub-heap, and no event only when both
\* are empty.
C26_PeekBlocking ==
    \A is_client \in BOOLEAN :
        LET queue == Endpoint(sim_queue, is_client)
            t == SimQueuePeekBlocking(sim_queue, TRUE, is_client)
            f == SimQueuePeekBlocking(sim_queue, FALSE, is_client)
        IN /\ t.q = "Blocking"
           /\ t.event = HeapPeek(queue.blocking)
           /\ t.event # NoEvent => ~t.event.bypass
           /\ EarliestHeadOf(f, queue, {"Blocking", "Bypassable"})

\* after a pop_blocking, an endpoint whose bypassable head is earlier
\* than its blocking head: a bypassable block sees the blocking head, a
\* block that is not bypassable the bypassable head
C26_Witness ==
    /\ result.op = "pop_blocking"
    /\ \E is_client \in BOOLEAN :
          LET queue == Endpoint(sim_queue, is_client)
          IN /\ queue.blocking # <<>>
             /\ queue.bypassable # <<>>
             /\ Head(queue.bypassable).time < Head(queue.blocking).time
             /\ SimQueuePeekBlocking(sim_queue, TRUE, is_client).event
                    = Head(queue.blocking)
             /\ SimQueuePeekBlocking(sim_queue, FALSE, is_client).q
                    = "Bypassable"

\* the sub-heaps whose events are blocked by a block, bypassable or not
BlockedQueues(bypassable) ==
    IF bypassable THEN {"Blocking"} ELSE {"Blocking", "Bypassable"}

\* C27: peek_non_blocking(bypassable, is_client) never returns an event
\* of blocking: with bypassable = false it returns the earliest of the
\* heads of internal and base, with bypassable = true the earliest of the
\* heads of bypassable, internal and base, with the tag of the sub-heap
\* holding it; so the events visible to peek_blocking and to
\* peek_non_blocking with the same arguments are disjoint and together
\* cover the four sub-heaps.
C27_PeekNonBlocking ==
    \A is_client \in BOOLEAN, bypassable \in BOOLEAN :
        LET queue == Endpoint(sim_queue, is_client)
            n == SimQueuePeekNonBlocking(sim_queue, bypassable, is_client)
            b == SimQueuePeekBlocking(sim_queue, bypassable, is_client)
        IN /\ n.event # NoEvent => n.q # "Blocking"
           /\ EarliestHeadOf(n, queue,
                  IF bypassable THEN {"Bypassable", "Internal", "Base"}
                  ELSE {"Internal", "Base"})
           /\ EarliestHeadOf(b, queue, BlockedQueues(bypassable))
           /\ EarliestHeadOf(n, queue, Queues \ BlockedQueues(bypassable))

\* after a pop of a non-blocking event, an endpoint whose blocking head
\* is its earliest event and whose bypassable head is later: with a
\* bypassable block the bypassable head is the next non-blocking event
C27_Witness ==
    /\ result.op = "pop_non_blocking"
    /\ \E is_client \in BOOLEAN :
          LET queue == Endpoint(sim_queue, is_client)
          IN /\ queue.blocking # <<>>
             /\ queue.bypassable # <<>>
             /\ Head(queue.blocking).time < Head(queue.bypassable).time
             /\ SimQueuePeekNonBlocking(sim_queue, TRUE, is_client)
                    = Peeked(Head(queue.bypassable), "Bypassable", 0)
             /\ SimQueuePeekNonBlocking(sim_queue, FALSE, is_client).event
                    # Head(queue.bypassable)

\* the pop r took the head of sub-heap q of the endpoint from sq and
\* nothing else, or nothing at all if that sub-heap is empty
TookHeadOf(r, sq, q, is_client) ==
    /\ ~r.panicked
    /\ r.event = HeapPeek(SubHeapOf(Endpoint(sq, is_client), q))
    /\ IF r.event = NoEvent THEN r.queue = sq
       ELSE OnlyHeadRemoved(sq, r.queue, q, is_client)

\* C28: pop_blocking(q, bypassable, is_client, delay) with bypassable =
\* true removes the head of the blocking sub-heap of the endpoint whatever
\* q is, and with bypassable = false behaves exactly as pop(q, is_client,
\* delay); so pop_blocking with the tag peek_blocking just returned for
\* the same bypassable and is_client removes exactly the event
\* peek_blocking returned.
C28_PopBlocking ==
    \A is_client \in BOOLEAN, network_delay_sum \in Delays :
        /\ \A q \in Queues :
              /\ TookHeadOf(SimQueuePopBlocking(sim_queue, q, TRUE,
                                                is_client,
                                                network_delay_sum),
                            sim_queue, "Blocking", is_client)
              /\ SimQueuePopBlocking(sim_queue, q, FALSE, is_client,
                                     network_delay_sum)
                     = SimQueuePop(sim_queue, q, is_client,
                                   network_delay_sum)
        /\ \A bypassable \in BOOLEAN :
              LET p == SimQueuePeekBlocking(sim_queue, bypassable,
                                            is_client)
                  r == SimQueuePopBlocking(sim_queue, p.q, bypassable,
                                           is_client, network_delay_sum)
              IN /\ r.event = p.event
                 /\ TookHeadOf(r, sim_queue, p.q, is_client)

\* a pop_blocking returned a blocking event although the bypassable head
\* of the endpoint is earlier (the block was bypassable), with events
\* left in base, for which another tag would have rewritten the time
C28_Witness ==
    /\ result = Returned("pop_blocking", 0, TRUE)
    /\ emitted # <<>>
    /\ ~emitted[1].bypass
    /\ LET queue == Endpoint(sim_queue, emitted[1].client)
       IN /\ queue.bypassable # <<>>
          /\ Head(queue.bypassable).time < emitted[1].time
          /\ queue.base # <<>>

---------------------------------------------------------------------------
(* What one event does: process_event is read off the calls a reachable   *)
(* state of Spec allows next, from the context x the events before it in  *)
(* the call leave to each context y it can end in.                        *)

\* every way process_event can go for an event of one of the types
EveryStep(types, P(_, _, _)) ==
    ~panicked =>
        \A c \in Calls(framework) :
            \A i \in 1 .. Len(c.events) :
                c.events[i].type \in types =>
                    \A x \in TriggerEventsOutcomes(
                                 framework, SubSeq(c.events, 1, i - 1),
                                 c.current_time) :
                        ~x.panicked =>
                            \A y \in ProcessEvent(x, c.events[i]) :
                                P(x, c.events[i], y)

SomeStep(types, P(_, _, _)) ==
    /\ ~panicked
    /\ \E c \in Calls(framework) :
          \E i \in 1 .. Len(c.events) :
              /\ c.events[i].type \in types
              /\ \E x \in TriggerEventsOutcomes(
                              framework, SubSeq(c.events, 1, i - 1),
                              c.current_time) :
                    /\ ~x.panicked
                    /\ \E y \in ProcessEvent(x, c.events[i]) :
                          P(x, c.events[i], y)

\* the history of the event: what y records after x
NewTrace(x, y) == SubSeq(y.trace, Len(x.trace) + 1, Len(y.trace))

\* the returns of transition with StateChange::Unchanged
UnchangedOutcomes == {"in_end", "small", "no_next", "cancel", "same"}

\* machine mi is as it was: its runtime (current_state, state_limit,
\* padding_sent, nonpadding_sent, blocking_duration) and pending action
MachineUntouched(x, y, mi) ==
    /\ y.f.runtime[mi] = x.f.runtime[mi]
    /\ y.f.actions[mi] = x.f.actions[mi]

\* the history tr holds exactly one transition on the event for each of
\* the machines mis, and none for another machine
OneTransitionEach(tr, type, mis) ==
    LET On(mi) == {j \in DOMAIN tr : /\ tr[j].op = "transition"
                                     /\ tr[j].event = type
                                     /\ tr[j].mi = mi}
    IN /\ \A mi \in mis : Cardinality(On(mi)) = 1
       /\ \A j \in DOMAIN tr :
             tr[j].op = "transition" /\ tr[j].event = type
                 => tr[j].mi \in mis

\* C29: PaddingSent { bytes_sent: n, machine: k } adds n to
\* global_paddingsent_bytes once and to padding_sent of machine k only,
\* and runs the transition (and, if the state is unchanged, the limit
\* decrement) for machine k only: the current_state, state_limit,
\* padding_sent, nonpadding_sent, blocking_duration and pending action of
\* every other machine are unchanged; LimitReached { machine: k } changes
\* only machine k's state.
C29_PaddingSentPerMachine ==
    /\ EveryStep({"PaddingSent"}, LAMBDA x, e, y :
          LET tr == NewTrace(x, y)
          IN /\ y.f.global_paddingsent_bytes
                    = x.f.global_paddingsent_bytes + e.bytes_sent
             /\ \A mi \in MachineIds(x.f) :
                   IF mi = e.machine
                   THEN y.f.runtime[mi].padding_sent
                            = x.f.runtime[mi].padding_sent + e.bytes_sent
                   ELSE MachineUntouched(x, y, mi)
             /\ \A j \in DOMAIN tr : tr[j].mi = e.machine
             /\ ~y.panicked =>
                   /\ OneTransitionEach(tr, "PaddingSent", {e.machine})
                   /\ tr[1].op = "transition"
                   /\ tr[1].event = "PaddingSent"
                   /\ tr[1].n = e.bytes_sent
                   /\ tr[1].outcome \in UnchangedOutcomes
                          <=> Len(tr) >= 2 /\ tr[2].op = "decrement")
    /\ EveryStep({"LimitReached"}, LAMBDA x, e, y :
          /\ \A j \in DOMAIN NewTrace(x, y) :
                NewTrace(x, y)[j].mi = e.machine
          /\ [y.f EXCEPT !.runtime[e.machine] = x.f.runtime[e.machine],
                         !.actions[e.machine] = x.f.actions[e.machine]]
                 = x.f)

\* padding of one machine is reported while another machine, in state 1,
\* has padding of its own counted: the first counts it and its limit is
\* decremented; and LimitReached for a machine of two makes it change
\* state
C29_Witness ==
    /\ SomeStep({"PaddingSent"}, LAMBDA x, e, y :
          /\ \E mi \in MachineIds(x.f) :
                /\ mi # e.machine
                /\ x.f.runtime[mi].padding_sent > 0
                /\ x.f.runtime[mi].current_state = 1
          /\ ~y.panicked
          /\ y.f.runtime[e.machine].padding_sent
                 > x.f.runtime[e.machine].padding_sent
          /\ y.f.runtime[e.machine].state_limit
                 < x.f.runtime[e.machine].state_limit)
    /\ SomeStep({"LimitReached"}, LAMBDA x, e, y :
          /\ NumMachines(x.f) > 1
          /\ ~y.panicked
          /\ y.f.runtime[e.machine].current_state
                 # x.f.runtime[e.machine].current_state)

\* C30: BlockingBegin marks blocking active and records the start time
\* only if blocking is not already active; BlockingEnd while active adds
\* now - start to global_blocking_duration and to every machine's
\* blocking_duration and clears the flag; BlockingEnd while not active
\* changes no duration; both events drive a transition of every machine.
C30_BlockingAccounting ==
    /\ EveryStep({"BlockingBegin"}, LAMBDA x, e, y :
          /\ y.f.global_blocking_active
          /\ y.f.global_blocking_started
                 = IF x.f.global_blocking_active
                   THEN x.f.global_blocking_started
                   ELSE x.f.current_time
          /\ ~y.panicked =>
                OneTransitionEach(NewTrace(x, y), "BlockingBegin",
                                  MachineIds(x.f)))
    /\ EveryStep({"BlockingEnd"}, LAMBDA x, e, y :
          LET blocked == IF x.f.global_blocking_active
                         THEN x.f.current_time
                                  - x.f.global_blocking_started
                         ELSE 0
          IN /\ ~y.f.global_blocking_active
             /\ y.f.global_blocking_started = x.f.global_blocking_started
             /\ y.f.global_blocking_duration
                    = x.f.global_blocking_duration + blocked
             /\ ~y.panicked =>
                   /\ \A mi \in MachineIds(x.f) :
                         y.f.runtime[mi].blocking_duration
                             = x.f.runtime[mi].blocking_duration + blocked
                   /\ OneTransitionEach(NewTrace(x, y), "BlockingEnd",
                                        MachineIds(x.f)))

\* blocking is active since an earlier time, with two machines: a
\* BlockingBegin now keeps the start, and a BlockingEnd now adds the time
\* since then to the framework's and to both machines' durations
C30_Witness ==
    /\ NumMachines(framework) > 1
    /\ SomeStep({"BlockingBegin"}, LAMBDA x, e, y :
          /\ x.f.global_blocking_active
          /\ x.f.current_time > x.f.global_blocking_started
          /\ ~y.panicked
          /\ y.f.global_blocking_started < y.f.current_time)
    /\ SomeStep({"BlockingEnd"}, LAMBDA x, e, y :
          /\ x.f.global_blocking_active
          /\ ~y.panicked
          /\ y.f.global_blocking_duration > x.f.global_blocking_duration
          /\ \A mi \in MachineIds(x.f) :
                y.f.runtime[mi].blocking_duration
                    > x.f.runtime[mi].blocking_duration)

---------------------------------------------------------------------------
(* Limits, cancellation, small packets and overwriting blocks, under      *)
(* SpecSteps.                                                             *)

\* the types of TriggerEvent
EventTypes ==
    {"NonPaddingRecv", "PaddingRecv", "NonPaddingSent", "PaddingSent",
     "BlockingBegin", "BlockingEnd", "LimitReached", "UpdateMTU"}

\* the positions of the history tr that are of machine mi
Mine(tr, mi) == {j \in DOMAIN tr : tr[j].mi = mi}

\* the transitions of machine mi in tr that moved it to another state of
\* the machine, and its limit decrements
ChangesOf(tr, mi) ==
    {j \in Mine(tr, mi) : tr[j].op = "transition" /\ tr[j].outcome = "changed"}

DecrementsOf(tr, mi) == {j \in Mine(tr, mi) : tr[j].op = "decrement"}

\* the event decrements the limit of machine mi if its state, cs, does not
\* change
Decrementing(e, machine, mi, cs) ==
    \/ e.type \in {"PaddingSent", "BlockingBegin"} /\ e.machine = mi
    \/ /\ e.type = "NonPaddingSent"
       /\ cs \in DOMAIN machine.states
       /\ machine.states[cs].limit_includes_nonpadding

\* how the event e moved state_limit of machine mi between x and y
LimitEvolves(x, e, y, mi) ==
    LET tr == NewTrace(x, y)
        machine == x.f.machines[mi]
        before == x.f.runtime[mi]
        after == y.f.runtime[mi]
        changes == ChangesOf(tr, mi)
        decrements == DecrementsOf(tr, mi)
    IN /\ Cardinality(changes) <= 1
       /\ Cardinality(decrements) <= 1
       /\ \A j \in decrements :
             /\ tr[j].before = before.state_limit
             /\ tr[j].after = IF before.state_limit > 0
                              THEN before.state_limit - 1
                              ELSE 0
             /\ tr[j].cs = before.current_state
             /\ \A i \in Mine(tr, mi) :
                   i < j => /\ tr[i].op = "transition"
                            /\ tr[i].outcome \in UnchangedOutcomes
             /\ Decrementing(e, machine, mi, before.current_state)
       /\ \A j \in changes :
             /\ tr[j].rt.current_state # tr[j].from
             /\ tr[j].rt.current_state \in DOMAIN machine.states
             /\ tr[j].rt.state_limit
                    \in SampleLimit(machine.states[tr[j].rt.current_state])
             /\ \A i \in Mine(tr, mi) : i > j => tr[i].op # "decrement"
       /\ after.state_limit
              = IF changes # {}
                THEN tr[CHOOSE j \in changes : TRUE].rt.state_limit
                ELSE IF decrements # {}
                THEN tr[CHOOSE j \in decrements : TRUE].after
                ELSE before.state_limit
       /\ changes # {}
              <=> /\ after.current_state # before.current_state
                  /\ after.current_state \in DOMAIN machine.states

\* C31: state_limit evolves only as follows: it is resampled from the new
\* state exactly when a transition moves the machine to a different real
\* state (not on a self-transition, a Cancel, a move to STATE_END or no
\* transition); it is decremented by one, never below 0, only when the
\* state did not change and the event is PaddingSent naming this machine,
\* BlockingBegin naming this machine, or NonPaddingSent in a state with
\* limit_includes_nonpadding; every other event leaves it unchanged, and
\* an event that changes the state never also decrements the freshly
\* sampled limit.
C31_StateLimitEvolution ==
    EveryStep(EventTypes, LAMBDA x, e, y :
        ~y.panicked =>
            \A mi \in MachineIds(x.f) : LimitEvolves(x, e, y, mi))

\* padding sent by the machine brings its limit to zero and the
\* LimitReached that follows moves it to another state, with a new limit;
\* and traffic sent decrements the limit of a machine whose state counts
\* it
C31_Witness ==
    /\ SomeStep({"PaddingSent"}, LAMBDA x, e, y :
          /\ ~y.panicked
          /\ DecrementsOf(NewTrace(x, y), e.machine) # {}
          /\ ChangesOf(NewTrace(x, y), e.machine) # {}
          /\ x.f.runtime[e.machine].state_limit = 1
          /\ y.f.runtime[e.machine].state_limit > 1)
    /\ SomeStep({"NonPaddingSent"}, LAMBDA x, e, y :
          \E mi \in MachineIds(x.f) :
              /\ ~y.panicked
              /\ x.f.runtime[mi].state_limit > 0
              /\ y.f.runtime[mi].state_limit
                     = x.f.runtime[mi].state_limit - 1
              /\ y.f.runtime[mi].current_state
                     = x.f.runtime[mi].current_state)

\* the bytes an event carries: the n of transition(mi, event, n)
EventBytes(e) ==
    CASE e.type \in {"NonPaddingRecv", "PaddingRecv"} -> e.bytes_recv
      [] e.type \in {"NonPaddingSent", "PaddingSent"} -> e.bytes_sent
      [] e.type = "UpdateMTU" -> e.new_mtu
      [] OTHER -> 0

\* process_event calls transition for machine mi on the event
Sees(e, mi) == e.type \in {"PaddingSent", "LimitReached"} => e.machine = mi

\* machine ignores the event as one of a small packet
SmallFor(e, machine) ==
    /\ ~machine.include_small_packets
    /\ EventBytes(e) > 0
    /\ EventBytes(e) <= MAXSMALLPACKETSIZE

\* in the context x, next_state can draw STATECANCEL for machine mi on
\* the event
CanCancel(x, e, mi) ==
    LET machine == x.f.machines[mi]
        rt == x.f.runtime[mi]
    IN /\ Sees(e, mi)
       /\ rt.current_state \in DOMAIN machine.states
       /\ ~SmallFor(e, machine)
       /\ \E p \in 0 .. ProbDenom - 1 :
             NextState(rt, machine, e.type, p) = <<STATECANCEL, TRUE>>

\* the step r of a history cancelled
Cancelled(r) == r.op = "transition" /\ r.outcome = "cancel"

\* the current state of machine mi after step k of the history of o: the
\* one its next step starts from, or the one the call ends in
StateAfter(o, mi, k) ==
    LET tr == o.x.trace
        later == {j \in Steps(o) : j > k /\ tr[j].mi = mi}
        next == CHOOSE j \in later : \A i \in later : j <= i
    IN IF later = {} THEN o.x.f.runtime[mi].current_state
       ELSE IF tr[next].op = "transition" THEN tr[next].from
       ELSE tr[next].cs

OnEvent(tr, e, mi) ==
    {j \in Mine(tr, mi) : tr[j].op = "transition" /\ tr[j].event = e.type}

\* the byte accounting of the event e is applied to machine mi and to the
\* framework
Accounted(x, e, y, mi) ==
    /\ e.type = "NonPaddingSent" =>
          /\ y.f.global_nonpadding_sent_bytes
                 = x.f.global_nonpadding_sent_bytes + e.bytes_sent
          /\ y.f.runtime[mi].nonpadding_sent
                 = x.f.runtime[mi].nonpadding_sent + e.bytes_sent
    /\ e.type = "PaddingSent" =>
          /\ y.f.global_paddingsent_bytes
                 = x.f.global_paddingsent_bytes + e.bytes_sent
          /\ e.machine = mi =>
                y.f.runtime[mi].padding_sent
                    = x.f.runtime[mi].padding_sent + e.bytes_sent

\* every other event drives the transitions of the machines that see it:
\* none of them is passed over as small
DrivenNormally(x, e, y, mi) ==
    ~SmallFor(e, x.f.machines[mi]) =>
        /\ \A j \in OnEvent(NewTrace(x, y), e, mi) :
              NewTrace(x, y)[j].outcome # "small"
        /\ Sees(e, mi) => OnEvent(NewTrace(x, y), e, mi) # {}

\* C33 as stated: for a machine with include_small_packets = false, an
\* event carrying n bytes with 0 < n <= MAX_SMALL_PACKET_SIZE never
\* changes the machine's current_state nor sets a pending action for it,
\* while the byte accounting of that event is still applied; events with
\* n = 0 or n > MAX_SMALL_PACKET_SIZE, and all events for machines with
\* include_small_packets = true, drive transitions normally.
C33_SmallPacketsChangeNothing ==
    EveryStep(EventTypes, LAMBDA x, e, y :
        ~y.panicked =>
            \A mi \in MachineIds(x.f) :
                /\ Accounted(x, e, y, mi)
                /\ DrivenNormally(x, e, y, mi)
                /\ SmallFor(e, x.f.machines[mi]) =>
                      /\ y.f.runtime[mi].current_state
                             = x.f.runtime[mi].current_state
                      /\ y.f.actions[mi] \in {x.f.actions[mi], None})

\* C33, amended: for a machine with include_small_packets = false, the
\* transition on an event carrying n bytes with 0 < n <=
\* MAX_SMALL_PACKET_SIZE returns Unchanged without a draw: it changes no
\* state and sets no action, and the byte accounting of the event is
\* applied; the current state and the pending action of the machine are
\* as before unless the limit decrement that follows the unchanged state
\* reaches the limit, which clears the action and dispatches
\* LimitReached; all other events drive transitions normally.
C33_SmallPacketsSkipTransition ==
    EveryStep(EventTypes, LAMBDA x, e, y :
        ~y.panicked =>
            \A mi \in MachineIds(x.f) :
                LET tr == NewTrace(x, y)
                IN /\ Accounted(x, e, y, mi)
                   /\ DrivenNormally(x, e, y, mi)
                   /\ SmallFor(e, x.f.machines[mi]) =>
                         /\ \A j \in OnEvent(tr, e, mi) :
                               /\ tr[j].outcome \in {"small", "in_end"}
                               /\ ~tr[j].below
                               /\ tr[j].action = None
                         /\ (\A j \in DecrementsOf(tr, mi) : ~tr[j].reached)
                            => /\ y.f.runtime[mi].current_state
                                      = x.f.runtime[mi].current_state
                               /\ y.f.actions[mi] = x.f.actions[mi])

\* padding of one byte is reported for a machine that ignores small
\* packets, in a state that pads again on PaddingSent: the padding is
\* counted and the transition is skipped, but the limit is reached and
\* LimitReached moves the machine and schedules an action; the same
\* machine is passed over by traffic of one byte that the other machine
\* counts as an event
C33_Witness ==
    /\ SomeStep({"PaddingSent"}, LAMBDA x, e, y :
          LET mi == e.machine
              tr == NewTrace(x, y)
          IN /\ SmallFor(e, x.f.machines[mi])
             /\ ~y.panicked
             /\ "PaddingSent" \in DOMAIN
                    x.f.machines[mi].states[x.f.runtime[mi].current_state]
                        .next_state
             /\ tr[1].outcome = "small"
             /\ y.f.runtime[mi].padding_sent
                    > x.f.runtime[mi].padding_sent
             /\ y.f.runtime[mi].current_state
                    # x.f.runtime[mi].current_state
             /\ y.f.actions[mi] \notin {x.f.actions[mi], None})
    /\ SomeStep({"NonPaddingSent"}, LAMBDA x, e, y :
          \E mi, other \in MachineIds(x.f) :
              /\ SmallFor(e, x.f.machines[mi])
              /\ ~SmallFor(e, x.f.machines[other])
              /\ ~y.panicked
              /\ y.f.runtime[mi].nonpadding_sent
                     > x.f.runtime[mi].nonpadding_sent
              /\ \E j \in OnEvent(NewTrace(x, y), e, other) :
                    NewTrace(x, y)[j].outcome \in {"same", "changed"})

\* r records a limit check for a block that overwrites
OverwriteChecked(r) ==
    /\ Evaluated(r)
    /\ StateOf(r).action_is_block
    /\ StateOf(r).block_overwrite

\* the budget of the machine is used up and a cap that is set is reached
\* at the limit check r
BlockingCapReached(r) ==
    LET machine == MachineOf(r)
        ongoing == IF r.g.blocking_active
                   THEN r.g.now - r.g.blocking_started
                   ELSE 0
        m_block == r.rt.blocking_duration + ongoing
        g_block == r.g.blocking_duration + ongoing
    IN /\ m_block >= machine.allowed_blocked_microsec
       /\ \/ /\ FracPositive(machine.max_blocking_frac)
             /\ RatioGe(m_block, r.g.now - r.rt.machine_start,
                        machine.max_blocking_frac)
          \/ /\ FracPositive(framework.global_max_blocking_frac)
             /\ RatioGe(g_block,
                        r.g.now - framework.global_framework_start,
                        framework.global_max_blocking_frac)

LimitsReached(tr, mi) ==
    {j \in Mine(tr, mi) :
        tr[j].op = "transition" /\ tr[j].event = "LimitReached"}

\* C35: every trigger_events call on a finite batch terminates: the
\* recursion process_event -> decrement_limit -> process_event(
\* LimitReached) has depth at most one, because handling LimitReached
\* never calls decrement_limit, and LimitReached is dispatched at most
\* once per machine per external event.
C35_LimitReachedOnceAndDone ==
    /\ ~panicked =>
          \A c \in Calls(framework) :
              TriggerEventsOutcomes(framework, c.events, c.current_time)
                  # {}
    /\ EveryStep(EventTypes \ {"LimitReached"}, LAMBDA x, e, y :
          LET tr == NewTrace(x, y)
          IN /\ Len(tr) <= 3 * NumMachines(x.f)
             /\ \A mi \in MachineIds(x.f) :
                   /\ Cardinality(LimitsReached(tr, mi)) <= 1
                   /\ Cardinality(DecrementsOf(tr, mi)) <= 1
                   /\ \A j \in LimitsReached(tr, mi) :
                         /\ j - 1 \in DecrementsOf(tr, mi)
                         /\ tr[j - 1].reached
                         /\ \A i \in Mine(tr, mi) : i <= j
                   /\ \A j \in DecrementsOf(tr, mi) :
                         tr[j].reached /\ ~y.panicked
                             => j + 1 \in LimitsReached(tr, mi))
    /\ EveryStep({"LimitReached"}, LAMBDA x, e, y :
          LET tr == NewTrace(x, y)
          IN /\ Len(tr) <= 1
             /\ \A j \in DOMAIN tr :
                   /\ tr[j].op = "transition"
                   /\ tr[j].mi = e.machine)

\* traffic sent brings the limit of a machine of two to zero: LimitReached
\* is dispatched for it, once, and the call goes on to end
C35_Witness ==
    SomeStep({"NonPaddingSent"}, LAMBDA x, e, y :
        \E mi \in MachineIds(x.f) :
            /\ NumMachines(x.f) > 1
            /\ ~y.panicked
            /\ x.f.runtime[mi].state_limit = 1
            /\ y.f.runtime[mi].state_limit = 0
            /\ Cardinality(LimitsReached(NewTrace(x, y), mi)) = 1)


---------------------------------------------------------------------------
(* Sampling a successor.                                                   *)

\* the draws r of gen_range(0.0..1.0) the model takes
Rolls == {Frac(k, ProbDenom) : k \in 0 .. ProbDenom - 1}

\* the scan of State::sample_state over a vector from its i-th transition,
\* with the sum of the probabilities before it; STATENOP stands for None
RECURSIVE SampleStateScan(_, _, _, _)
SampleStateScan(vector, r, i, sum) ==
    IF i > Len(vector) THEN STATENOP
    ELSE LET s == F64Add(sum, vector[i].probability)
         IN IF F64Lt(r, s) THEN vector[i].state
            ELSE SampleStateScan(vector, r, i + 1, s)

\* State::sample_state without fast-sample; STATENOP stands for None
SampleState(state, event, r) ==
    IF event \notin DOMAIN state.transitions THEN STATENOP
    ELSE SampleStateScan(state.transitions[event], r, 1, Frac(0, 1))

\* sample_state on the states of a machine that validates: nothing for an
\* event without transitions, else a declared target or nothing, and
\* nothing only when the probabilities sum to less than one; a vector with
\* a NaN probability validates and yields nothing whatever the draw
SampleStateDeclared ==
    \A mi \in DOMAIN args.machines :
        MachineValidate(args.machines[mi]) =>
            \A i \in DOMAIN args.machines[mi].states :
                LET state == args.machines[mi].states[i]
                IN /\ \A r \in Rolls :
                         \A event \in EventTypes \ DOMAIN state.transitions :
                            SampleState(state, event, r) = STATENOP
                   /\ \A event \in DOMAIN state.transitions, r \in Rolls :
                         LET vector == state.transitions[event]
                             next == SampleState(state, event, r)
                         IN IF next = STATENOP
                            THEN LET sum == SumOfProbabilities(vector,
                                                               Len(vector))
                                 IN IsNaN(sum) \/ F64Lt(sum, Frac(1, 1))
                            ELSE \E j \in DOMAIN vector :
                                    vector[j].state = next

\* the slot of next_prop that holds the probability of a sampled target
SlotOf(next_prop, next) ==
    CASE next = STATECANCEL -> Len(next_prop) - 1
      [] next = STATEEND -> Len(next_prop)
      [] OTHER -> next + 1

RECURSIVE SumOfSlots(_, _)
SumOfSlots(next_prop, i) ==
    IF i = 0 THEN 0 ELSE SumOfSlots(next_prop, i - 1) + next_prop[i]

\* C36: sampling a successor returns nothing when the current state
\* declares no transition for the event, and otherwise a target the state
\* declares for the event (one with a probability above zero) or nothing,
\* and nothing only when the declared probabilities sum to less than one
C36_SampledTargetIsDeclared ==
    \A mi \in DOMAIN framework.machines :
        LET machine == framework.machines[mi]
        IN \A s \in DOMAIN machine.states, event \in EventTypes,
              p \in 0 .. ProbDenom - 1 :
              LET ns == NextState([current_state |-> s], machine, event, p)
                  declared == event \in DOMAIN machine.states[s].next_state
              IN IF ~declared THEN ns = <<0, FALSE>>
                 ELSE LET next_prop == machine.states[s].next_state[event]
                      IN IF ns[2]
                         THEN next_prop[SlotOf(next_prop, ns[1])] > 0
                         ELSE SumOfSlots(next_prop, Len(next_prop)) < One


---------------------------------------------------------------------------
(* Accounting of the bytes sent.                                           *)

\* the padding bytes of the machines 0 .. n - 1 of the framework f
RECURSIVE SumOfPaddingSent(_, _)
SumOfPaddingSent(f, n) ==
    IF n = 0 THEN 0
    ELSE SumOfPaddingSent(f, n - 1) + f.runtime[n - 1].padding_sent

\* the counters of the framework f agree
AccountingAgrees(f) ==
    /\ f.global_paddingsent_bytes
          = SumOfPaddingSent(f, VecLen(f.runtime))
    /\ \A mi \in DOMAIN f.runtime :
          f.runtime[mi].nonpadding_sent = f.global_nonpadding_sent_bytes

\* C37: in every reachable state the padding bytes of the framework are
\* the sum of the padding bytes of its machines, and every machine's
\* non-padding bytes are those of the framework
C37_AccountingAgrees == AccountingAgrees(framework)

\* both machines of a framework have sent padding and non-padding was sent
C37_Witness ==
    /\ ~panicked
    /\ VecLen(framework.runtime) = 2
    /\ \A mi \in DOMAIN framework.runtime :
          framework.runtime[mi].padding_sent > 0
    /\ framework.global_nonpadding_sent_bytes > 0


---------------------------------------------------------------------------
(* The blocked time and the time elapsed.                                  *)

\* the blocked time f accounts, with the elapsed part of an ongoing block,
\* is within the time since the start of the framework and of each machine
BlockedWithinElapsed(f) ==
    LET ongoing == IF f.global_blocking_active
                   THEN f.current_time - f.global_blocking_started
                   ELSE 0
    IN /\ f.global_blocking_duration + ongoing
             <= f.current_time - f.global_framework_start
       /\ \A mi \in DOMAIN f.runtime :
             f.runtime[mi].blocking_duration + ongoing
                 <= f.current_time - f.runtime[mi].machine_start

\* the blocked time of the machine, its elapsed time, and those of the
\* framework, as the limit check r reads them
BlockingTimes(r) ==
    LET ongoing == IF r.g.blocking_active
                   THEN r.g.now - r.g.blocking_started
                   ELSE 0
    IN [m_block_dur |-> r.rt.blocking_duration + ongoing,
        g_block_dur |-> r.g.blocking_duration + ongoing,
        m_elapsed |-> r.g.now - r.rt.machine_start,
        g_elapsed |-> r.g.now - framework.global_framework_start]

\* the limit check r goes past the overwrite exemption and the budget of
\* the machine, to the caps
CapsChecked(r) ==
    /\ Evaluated(r)
    /\ StateOf(r).action_is_block
    /\ ~(StateOf(r).block_overwrite /\ ~r.g.blocking_active)
    /\ BlockingTimes(r).m_block_dur >= MachineOf(r).allowed_blocked_microsec

\* the limit check r computes the fraction of the machine
MachineFractionComputed(r) ==
    CapsChecked(r) /\ FracPositive(MachineOf(r).max_blocking_frac)

\* the limit check r computes the fraction of the framework: the cap of
\* the machine, if set, did not refuse
GlobalFractionComputed(r) ==
    /\ CapsChecked(r)
    /\ FracPositive(framework.global_max_blocking_frac)
    /\ ~(/\ FracPositive(MachineOf(r).max_blocking_frac)
         /\ F64DivGe(BlockingTimes(r).m_block_dur, BlockingTimes(r).m_elapsed,
                     MachineOf(r).max_blocking_frac))

\* the quotient a / b is a number of [0, 1]
InUnit(a, b) == b > 0 /\ 0 <= a /\ a <= b

\* the quotient a / b is 0 / 0, not a number
Undefined(a, b) == a = 0 /\ b = 0

\* every fraction a limit check of the outcome o computes satisfies P
EveryFraction(o, P(_, _)) ==
    \A k \in Steps(o) :
        LET r == o.x.trace[k]
            t == BlockingTimes(r)
        IN /\ MachineFractionComputed(r) => P(t.m_block_dur, t.m_elapsed)
           /\ GlobalFractionComputed(r) => P(t.g_block_dur, t.g_elapsed)

\* C38: under non-decreasing clocks the accounted blocked time, with the
\* elapsed part of an ongoing block, never exceeds the time elapsed since
\* the start of the framework, nor since the start of any machine, so
\* every blocking fraction the limit check computes lies in [0, 1]
C38_BlockingFractionInUnit ==
    /\ BlockedWithinElapsed(framework)
    /\ EveryOutcome(LAMBDA o :
          /\ ~o.x.panicked => BlockedWithinElapsed(o.x.f)
          /\ EveryFraction(o, InUnit))

\* the part that holds: the blocked time is within the elapsed time, and a
\* fraction the limit check computes is in [0, 1] or is 0 / 0
BlockingFractionInUnitOrUndefined ==
    /\ BlockedWithinElapsed(framework)
    /\ EveryOutcome(LAMBDA o :
          /\ ~o.x.panicked => BlockedWithinElapsed(o.x.f)
          /\ EveryFraction(o, LAMBDA a, b : InUnit(a, b) \/ Undefined(a, b)))

\* a limit check computes a fraction above zero and one of 0 / 0 with a
\* cap set, and schedules the block at the latter
BlockingFractionsComputed ==
    /\ SomeOutcome(LAMBDA o : \E k \in Steps(o) :
          LET r == o.x.trace[k]
              t == BlockingTimes(r)
          IN /\ MachineFractionComputed(r)
             /\ t.m_block_dur > 0
             /\ InUnit(t.m_block_dur, t.m_elapsed))
    /\ SomeOutcome(LAMBDA o : \E k \in Steps(o) :
          LET r == o.x.trace[k]
              t == BlockingTimes(r)
          IN /\ MachineFractionComputed(r)
             /\ Undefined(t.m_block_dur, t.m_elapsed)
             /\ r.below)


---------------------------------------------------------------------------
(* Popping an empty sub-heap, and draining the queue, under SpecQueue.     *)

\* pop(q, is_client, network_delay_sum) returns no event, does not panic
\* and leaves the queue as it is
PopsNothing(sq, q, is_client, network_delay_sum) ==
    LET p == SimQueuePop(sq, q, is_client, network_delay_sum)
    IN /\ p.event = NoEvent
       /\ ~p.panicked
       /\ p.queue = sq

\* the sub-heap q of an endpoint of sq is empty
EmptySubHeap(sq, q, is_client) ==
    Len(SubHeapOf(Endpoint(sq, is_client), q)) = 0

\* C39: pop(q, is_client, network_delay_sum) on an endpoint whose sub-heap
\* q is empty returns no event, does not fail and leaves the whole queue
\* unchanged, for every tag q and every network_delay_sum, Base with a
\* non-zero network_delay_sum included
C39_PopOfEmptySubHeap ==
    \A q \in Queues, is_client \in BOOLEAN, network_delay_sum \in Delays :
        EmptySubHeap(sim_queue, q, is_client) =>
            PopsNothing(sim_queue, q, is_client, network_delay_sum)

\* the part that holds: every tag but Base with a non-zero delay, where
\* pop panics
PopOfEmptySubHeapUnlessDelayedBase ==
    \A q \in Queues, is_client \in BOOLEAN, network_delay_sum \in Delays :
        EmptySubHeap(sim_queue, q, is_client) =>
            IF q = "Base" /\ network_delay_sum # 0
            THEN SimQueuePop(sim_queue, q, is_client,
                             network_delay_sum).panicked
            ELSE PopsNothing(sim_queue, q, is_client, network_delay_sum)


\* what the loop that peeks, pops what peek returned and sets current_time
\* to the time of the popped event yields from sq in n iterations at most:
\* the times of the events, the queue left, and whether a pop failed or
\* returned no event
RECURSIVE Drain(_, _, _, _)
Drain(sq, network_delay_sum, current_time, n) ==
    LET p == SimQueuePeek(sq, network_delay_sum, current_time)
    IN IF n = 0 \/ p.event = NoEvent
       THEN [times |-> <<>>, left |-> sq, failed |-> FALSE]
       ELSE LET popped == SimQueuePop(sq, p.q, p.event.client,
                                      network_delay_sum)
            IN IF popped.panicked \/ popped.event = NoEvent
               THEN [times |-> <<>>, left |-> popped.queue, failed |-> TRUE]
               ELSE LET rest == Drain(popped.queue, network_delay_sum,
                                      popped.event.time, n - 1)
                    IN [times |-> <<popped.event.time>> \o rest.times,
                        left |-> rest.left, failed |-> rest.failed]

\* current_time is not later than the time any event of sq is due at
NotLaterThanAny(sq, network_delay_sum, current_time) ==
    \A g \in Held(sq) :
        current_time <= EffectiveTime(g.event, g.q, network_delay_sum)

NonDecreasing(times) ==
    \A i \in 1 .. Len(times) - 1 : times[i] <= times[i + 1]

\* C40: from any queue, with a fixed network_delay_sum and a current_time
\* not later than any queued event's effective time, the loop of peek, pop
\* and setting current_time to the popped event's time yields events with
\* non-decreasing times, none before current_time, and empties the queue
\* after exactly len() iterations
C40_DrainingOrder ==
    \A network_delay_sum \in Delays, current_time \in 0 .. MaxTime :
        NotLaterThanAny(sim_queue, network_delay_sum, current_time) =>
            LET n == SimQueueLen(sim_queue)
                d == Drain(sim_queue, network_delay_sum, current_time, n + 1)
            IN /\ ~d.failed
               /\ Len(d.times) = n
               /\ SimQueueLen(d.left) = 0
               /\ NonDecreasing(d.times)
               /\ n > 0 => current_time <= d.times[1]

\* a full queue with events of both endpoints and a base event, drained
\* with a delay at a current_time above zero: the times rise on the way,
\* and the base event's stored time is below the time it is popped at
C40_Witness ==
    /\ ~panicked
    /\ SimQueueLen(sim_queue) = MaxQueueLen
    /\ EventQueueLen(sim_queue.client) > 0
    /\ EventQueueLen(sim_queue.server) > 0
    /\ \E g \in Held(sim_queue) : g.q = "Base"
    /\ \E network_delay_sum \in Delays \ {0}, current_time \in 1 .. MaxTime :
          /\ NotLaterThanAny(sim_queue, network_delay_sum, current_time)
          /\ LET d == Drain(sim_queue, network_delay_sum, current_time,
                            MaxQueueLen)
             IN /\ Len(d.times) = MaxQueueLen
                /\ d.times[1] < d.times[MaxQueueLen]

=============================================================================
